---- MODULE Spec2Model ----
(***************************************************************************)
(* Interview practice page of Career Hero (frontend/src/app/interview).    *)
(* The model follows InterviewContent: the React state currentSession and  *)
(* records, the handlers startSession, submitAnswer, nextQuestion,         *)
(* pauseSession, resumeSession, endSession, onLoadRecord,                  *)
(* syncRemoteSessions, and the effect that upserts currentSession into     *)
(* records after every change.                                             *)
(*                                                                         *)
(* A handler that awaits the remote authority is two steps: the code up to *)
(* the await (Begin...) and the code after it (Complete...), the request   *)
(* in flight being the variable pending.  Text is a sequence of character  *)
(* codes, 0 being a blank.  An optional number is a set of at most one     *)
(* number; null is the record Null.  The clock now advances by one at      *)
(* every handler invocation.  lastCall is                                  *)
(* the handler called last, with its argument and how it ended; everLocal  *)
(* is the set of session keys that have been in local mode.                *)
(***************************************************************************)
EXTENDS Integers, Sequences, FiniteSets, TLC

VARIABLES currentSession, records, pending, error, now, lastCall, everLocal

(* Two invocations of buildLocalFeedback, each with its inputs and its result *)
VARIABLES reviewA, reviewB

(* One invocation of toErrorMessage, with its payload and its result *)
VARIABLE errorShown

(* useClientAuth: authRef.current, the localStorage entry of the         *)
(* credential, the number of guest credentials generated so far,         *)
(* authFailureReason, and the apiFetch call in flight or completed last  *)
VARIABLES authRef, authStorage, minted, authFailureReason, call

(* Whether logout was called and no login or applyAccessToken since *)
VARIABLE loggedOut

(* A second apiFetch call, begun while the first is in flight *)
VARIABLE otherCall

(* The localStorage entry of the session records, and the resumeContextKey *)
(* of the interview page that is open                                      *)
VARIABLES sessionStore, resumeContextKey

interviewVars == <<currentSession, records, pending, error, now, lastCall, everLocal>>

reviewVars == <<reviewA, reviewB, errorShown>>

authVars == <<authRef, authStorage, minted, authFailureReason, call, loggedOut, otherCall>>

storeVars == <<sessionStore, resumeContextKey>>

(* The state outside the interview page *)
otherVars == <<reviewVars, authVars, resumeContextKey>>

vars == <<interviewVars, reviewVars, authVars, storeVars>>

----------------------------------------------------------------------------
(* Bounds of the model *)

MaxClock == 5

(* Program constants *)

StoreCap == 50
InferLimit == 30
ScoreCap == 95
ScoreBase == 45
ScorePerAnswer == 12
LengthBonus1 == 12
LengthBonus2 == 6
LengthThreshold1 == 80
LengthThreshold2 == 140

----------------------------------------------------------------------------
(* Values *)

Null == [null |-> TRUE]
NoPending == [op |-> "none"]
Blank == 0
Ellipsis == 9
DefaultRole == <<7, 7>>

Min(a, b) == IF a < b THEN a ELSE b
Max(a, b) == IF a > b THEN a ELSE b

(* value ?? fallback, for an optional number *)
OrElse(opt, fallback) == IF opt = {} THEN fallback ELSE CHOOSE v \in opt : TRUE

RECURSIVE TrimStart(_)
TrimStart(s) ==
  IF s = <<>> THEN <<>>
  ELSE IF Head(s) = Blank THEN TrimStart(Tail(s)) ELSE s

RECURSIVE TrimEnd(_)
TrimEnd(s) ==
  IF s = <<>> THEN <<>>
  ELSE IF s[Len(s)] = Blank THEN TrimEnd(SubSeq(s, 1, Len(s) - 1)) ELSE s

(* String.prototype.trim *)
Trim(s) == TrimEnd(TrimStart(s))

(* n copies of the character c *)
Rep(c, n) == [i \in 1..n |-> c]

inferPositionFromJd(jdText) ==
  LET firstLine == Trim(jdText)
  IN IF firstLine = <<>> THEN <<>>
     ELSE IF Len(firstLine) <= InferLimit THEN firstLine
     ELSE SubSeq(firstLine, 1, InferLimit) \o <<Ellipsis>>

buildLocalQuestions(position) ==
  LET role == IF Trim(position) = <<>> THEN DefaultRole ELSE Trim(position)
  IN << [id |-> "q-1", text |-> <<"self_intro", role>>, category |-> "self_intro"],
        [id |-> "q-2", text |-> <<"project_depth", <<>> >>, category |-> "project_depth"],
        [id |-> "q-3", text |-> <<"onboarding", <<>> >>, category |-> "onboarding"] >>

(* Object.keys(answers) *)
Keys(answers) == DOMAIN answers

(* { ...answers, [id]: text } *)
WithAnswer(answers, id, text) ==
  [k \in (DOMAIN answers) \cup {id} |-> IF k = id THEN text ELSE answers[k]]

(* { ...a, ...b } *)
Spread(a, b) ==
  [k \in (DOMAIN a) \cup (DOMAIN b) |-> IF k \in DOMAIN b THEN b[k] ELSE a[k]]

NoAnswers == [k \in {} |-> <<>>]

NonEmptyKeys(answers) == {k \in DOMAIN answers : Len(Trim(answers[k])) > 0}

RECURSIVE SumTrimmedLength(_, _)
SumTrimmedLength(answers, ks) ==
  IF ks = {} THEN 0
  ELSE LET k == CHOOSE x \in ks : TRUE
       IN Len(Trim(answers[k])) + SumTrimmedLength(answers, ks \ {k})

(* Math.round of the non-negative quotient a / b *)
RoundDiv(a, b) == (2 * a + b) \div (2 * b)

(* buildLocalFeedback judging completeness by the stored answers, blank *)
(* ones included                                                       *)
buildLocalFeedbackAllStored(answers, totalQuestions, position) ==
  LET answerList == NonEmptyKeys(answers)
      n == Cardinality(answerList)
      avgLength == IF n > 0 THEN RoundDiv(SumTrimmedLength(answers, answerList), n) ELSE 0
  IN [summary |-> <<"local_summary",
                    IF Trim(position) = <<>> THEN DefaultRole ELSE Trim(position)>>,
      strengths |->
        (IF Cardinality(DOMAIN answers) >= Min(3, totalQuestions)
         THEN <<"complete">> ELSE <<>>)
          \o (IF avgLength >= LengthThreshold1 THEN <<"detailed">> ELSE <<>>),
      improvements |->
        (IF avgLength < LengthThreshold1 THEN <<"too_short">> ELSE <<>>)
          \o <<"add_impact">>,
      score |-> {Min(ScoreCap,
                     ScoreBase + n * ScorePerAnswer
                       + (IF avgLength >= LengthThreshold1 THEN LengthBonus1 ELSE 0)
                       + (IF avgLength >= LengthThreshold2 THEN LengthBonus2 ELSE 0))}]

RECURSIVE SumLength(_, _)
SumLength(answers, ks) ==
  IF ks = {} THEN 0
  ELSE LET k == CHOOSE x \in ks : TRUE
       IN Len(answers[k]) + SumLength(answers, ks \ {k})

(* buildLocalFeedback averaging the lengths of the untrimmed answers *)
buildLocalFeedbackUntrimmed(answers, totalQuestions, position) ==
  LET answerList == NonEmptyKeys(answers)
      n == Cardinality(answerList)
      avgLength == IF n > 0 THEN RoundDiv(SumLength(answers, answerList), n) ELSE 0
  IN [summary |-> <<"local_summary",
                    IF Trim(position) = <<>> THEN DefaultRole ELSE Trim(position)>>,
      strengths |->
        (IF n >= Min(3, totalQuestions) THEN <<"complete">> ELSE <<>>)
          \o (IF avgLength >= LengthThreshold1 THEN <<"detailed">> ELSE <<>>),
      improvements |->
        (IF avgLength < LengthThreshold1 THEN <<"too_short">> ELSE <<>>)
          \o <<"add_impact">>,
      score |-> {Min(ScoreCap,
                     ScoreBase + n * ScorePerAnswer
                       + (IF avgLength >= LengthThreshold1 THEN LengthBonus1 ELSE 0)
                       + (IF avgLength >= LengthThreshold2 THEN LengthBonus2 ELSE 0))}]

buildLocalFeedback(answers, totalQuestions, position) ==
  LET answerList == NonEmptyKeys(answers)
      n == Cardinality(answerList)
      avgLength == IF n > 0 THEN RoundDiv(SumTrimmedLength(answers, answerList), n) ELSE 0
      score == Min(ScoreCap,
                   ScoreBase + n * ScorePerAnswer
                     + (IF avgLength >= LengthThreshold1 THEN LengthBonus1 ELSE 0)
                     + (IF avgLength >= LengthThreshold2 THEN LengthBonus2 ELSE 0))
      strengths ==
        (IF n >= Min(3, totalQuestions) THEN <<"complete">> ELSE <<>>)
          \o (IF avgLength >= LengthThreshold1 THEN <<"detailed">> ELSE <<>>)
      improvements ==
        (IF avgLength < LengthThreshold1 THEN <<"too_short">> ELSE <<>>)
          \o <<"add_impact">>
  IN [summary |-> <<"local_summary",
                    IF Trim(position) = <<>> THEN DefaultRole ELSE Trim(position)>>,
      strengths |-> strengths,
      improvements |-> improvements,
      score |-> {score}]

normalizeStatus(value) ==
  IF value = "paused" THEN "paused"
  ELSE IF value \in {"finished", "completed", "done"} THEN "finished"
  ELSE "active"


(* Number.parseInt(remoteSessionId, 10), undefined when not finite *)
ParseInt(token) ==
  IF token = "1" THEN {1}
  ELSE IF token = "2" THEN {2}
  ELSE {}

toInterviewFeedback(raw) ==
  IF raw = Null THEN Null
  ELSE IF raw.summary = <<>> /\ raw.strengths = <<>> /\ raw.improvements = <<>> /\ raw.score = {}
       THEN Null
       ELSE [summary |-> IF raw.summary = <<>> THEN <<"default_summary">> ELSE raw.summary,
             strengths |-> raw.strengths,
             improvements |-> raw.improvements,
             score |-> raw.score]

(* list.findIndex(pred), hits being the positions where pred holds: the *)
(* first of them, 0 when there is none (TypeScript: -1)                 *)
FindIndex(hits) ==
  IF hits = {} THEN 0 ELSE CHOOSE i \in hits : \A j \in hits : i <= j

(* list.slice(0, n) *)
Slice(list, n) == SubSeq(list, 1, Min(Len(list), n))

(* upsertRecord without the slice of the new list *)
upsertRecordUncapped(list, next) ==
  LET Match(item) ==
        \/ item.key = next.key
        \/ item.sessionId = next.sessionId
        \/ (item.remoteNumericId # {} /\ item.remoteNumericId = next.remoteNumericId)
      exists == FindIndex({i \in 1..Len(list) : Match(list[i])})
  IN IF exists = 0
     THEN <<next>> \o list
     ELSE LET current == list[exists]
              merged == [next EXCEPT
                           !.key = current.key,
                           !.questions = IF Len(next.questions) > 0 THEN next.questions
                                         ELSE current.questions,
                           !.answers = Spread(current.answers, next.answers),
                           !.feedback = IF next.feedback # Null THEN next.feedback
                                        ELSE current.feedback]
          IN [list EXCEPT ![exists] = merged]

upsertRecord(list, next) ==
  LET Match(item) ==
        \/ item.key = next.key
        \/ item.sessionId = next.sessionId
        \/ (item.remoteNumericId # {} /\ item.remoteNumericId = next.remoteNumericId)
      exists == FindIndex({i \in 1..Len(list) : Match(list[i])})
  IN IF exists = 0
     THEN Slice(<<next>> \o list, StoreCap)
     ELSE LET current == list[exists]
              merged == [next EXCEPT
                           !.key = current.key,
                           !.questions = IF Len(next.questions) > 0 THEN next.questions
                                         ELSE current.questions,
                           !.answers = Spread(current.answers, next.answers),
                           !.feedback = IF next.feedback # Null THEN next.feedback
                                        ELSE current.feedback]
          IN [list EXCEPT ![exists] = merged]

(* The keys the interview page is opened with: "manual" without query, *)
(* otherwise the key of a resume                                       *)
ResumeKey == "resume-1-v0"
ContextKeys == {"manual", ResumeKey}

normalizeRecord(value) ==
  IF value.key = "" \/ value.sessionId = "" THEN Null
  ELSE [value EXCEPT !.status = normalizeStatus(value.status),
                     !.feedback = toInterviewFeedback(value.feedback)]

(* loadSessionRecords on the stored list *)
loadSessionRecords(stored) ==
  LET Usable(item) == normalizeRecord(item) # Null
      kept == SelectSeq(stored, Usable)
  IN Slice([i \in 1..Len(kept) |-> normalizeRecord(kept[i])], StoreCap)

(* What saveSessionRecords writes *)
saveSessionRecords(list) == Slice(list, StoreCap)

(* The effect on [records]: the list is written to the localStorage *)
SaveEffect == sessionStore' = saveSessionRecords(records')

recordScope(item) == IF item.resumeContextKey = "" THEN "manual" ELSE item.resumeContextKey

(* The list the effect on [resumeContextKey] hands to setRecords *)
initialRecords(stored, contextKey) ==
  LET initial == loadSessionRecords(stored)
      InScope(item) == recordScope(item) = contextKey
      scoped == SelectSeq(initial, InScope)
  IN IF contextKey = "manual"
     THEN (IF Len(scoped) > 0 THEN scoped ELSE initial)
     ELSE scoped

(* The effect on [currentSession]: records := upsertRecord(records, currentSession) *)
AfterSessionChange(list, session) ==
  IF session = Null THEN list ELSE upsertRecord(list, session)

(* applySessionPatch: next is updater(prev) *)
applySessionPatch(next, t) ==
  [next EXCEPT
     !.updatedAt = t,
     !.questionCount = Max(next.questionCount, Len(next.questions)),
     !.answeredCount = Cardinality(Keys(next.answers))]

(* currentSession.questions[currentSession.currentIndex] ?? null *)
currentQuestion(session) ==
  IF session = Null THEN Null
  ELSE IF session.currentIndex + 1 \in 1..Len(session.questions)
       THEN session.questions[session.currentIndex + 1]
       ELSE Null


----------------------------------------------------------------------------
(* Inputs of the caller and replies of the remote authority *)

PositionInputs == {<<>>, <<Blank>>}
JdInputs == {<<>>, <<Blank>>, <<Blank, 2>>}
AnswerInputs == {<<>>, <<Blank>>, <<Blank, 3, Blank>>}

RemoteQuestion(id) == [id |-> id, text |-> <<"remote", <<>> >>, category |-> ""]

RemoteFeedbackDraft ==
  [summary |-> <<"remote_summary">>, strengths |-> <<"s">>, improvements |-> <<>>,
   score |-> {88}]

RemoteFeedbacks ==
  {Null,
   [summary |-> <<>>, strengths |-> <<>>, improvements |-> <<>>, score |-> {}],
   [summary |-> <<>>, strengths |-> <<>>, improvements |-> <<>>, score |-> {150}],
   RemoteFeedbackDraft}

(* One reply per endpoint candidate tried: ok, 404/405 (notfound), another *)
(* non-2xx (error), a rejected fetch (throw), or the 401 that apiFetch     *)
(* returns once it has replaced the credential by a guest (unauthorized).  *)
FailKinds == {"notfound", "error", "throw", "unauthorized"}

(* The replies callInterviewApi consumes on n candidates: it stops at the  *)
(* first ok reply, otherwise it tries all n.                               *)
ReplyRuns(n) ==
  {<<"ok">>, <<"notfound", "ok">>, <<"error", "ok">>}
    \cup {[i \in 1..n |-> k] : k \in FailKinds}

(* callInterviewApi that resolves with an empty body on a 401 *)
callInterviewApiResolvesDenied(run, data) ==
  IF run[Len(run)] \in {"ok", "unauthorized"}
  THEN [ok |-> TRUE, data |-> data, attempts |-> Len(run)]
  ELSE [ok |-> FALSE, data |-> Null, attempts |-> Len(run)]

(* callInterviewApi: resolves with the data iff the last reply consumed is ok *)
callInterviewApi(run, data) ==
  IF run[Len(run)] = "ok"
  THEN [ok |-> TRUE, data |-> data, attempts |-> Len(run)]
  ELSE [ok |-> FALSE, data |-> Null, attempts |-> Len(run)]

(* What lastCall records of the replies: whether a request of the call was *)
(* answered 401                                                            *)
RepliesSeen(run) ==
  IF \E i \in 1..Len(run) : run[i] = "unauthorized" THEN <<"unauthorized">> ELSE <<>>

(* Bodies of the create reply, after the field aliases are resolved *)
CreateBase ==
  [sessionId |-> "1", status |-> "", questions |-> <<>>, questionCount |-> {},
   answeredCount |-> {}, currentIndex |-> {}]

CreateReplies ==
  {[CreateBase EXCEPT !.sessionId = ""],
   CreateBase,
   [CreateBase EXCEPT !.questions = <<RemoteQuestion("r-1"), RemoteQuestion("r-2")>>],
   [CreateBase EXCEPT !.status = "completed",
                      !.questions = <<RemoteQuestion("r-1"), RemoteQuestion("r-1")>>],
   [CreateBase EXCEPT !.status = "paused", !.currentIndex = {5}, !.answeredCount = {2}]}

(* Bodies of the answer and next replies *)
AnswerBase == [nextQuestion |-> Null, currentIndex |-> {}, status |-> ""]

AnswerReplies ==
  {AnswerBase,
   [AnswerBase EXCEPT !.nextQuestion = RemoteQuestion("r-3")],
   [AnswerBase EXCEPT !.status = "paused"],
   [AnswerBase EXCEPT !.currentIndex = {5}, !.status = "completed"]}

----------------------------------------------------------------------------
(* startSession *)

(* The wall clock, read as new Date() and Date.now(): later at every handler call *)
Advance == now < MaxClock /\ now' = now + 1

Call(op, arg, outcome) == [op |-> op, arg |-> arg, outcome |-> outcome]

(* return; *)
Ignore(op, arg) ==
  /\ lastCall' = Call(op, arg, "ignored")
  /\ Advance
  /\ UNCHANGED <<currentSession, records, pending, error, everLocal>>

(* setError(message); return; *)
Reject(op, arg, message) ==
  /\ lastCall' = Call(op, arg, "rejected")
  /\ error' = message
  /\ Advance
  /\ UNCHANGED <<currentSession, records, pending, everLocal>>

(* startJd without the trimming of its inputs *)
startJdUntrimmed(positionIn, jdIn) ==
  IF jdIn # <<>> THEN jdIn ELSE positionIn

(* jdValue || positionValue *)
startJd(positionIn, jdIn) ==
  IF Trim(jdIn) # <<>> THEN Trim(jdIn) ELSE Trim(positionIn)

BeginStart ==
  /\ UNCHANGED otherVars
  /\ pending = NoPending
  /\ \E positionIn \in PositionInputs, jdIn \in JdInputs :
       LET positionValue == Trim(positionIn)
           jd == startJd(positionIn, jdIn)
       IN IF jd = <<>>
          THEN Reject("start", <<Trim(positionIn), Trim(jdIn)>>, "need_position_or_jd")
          ELSE /\ Advance
               /\ error' = ""
               /\ pending' = [op |-> "start", position |-> positionValue, jd |-> jd,
                              now |-> now]
               /\ lastCall' = Call("start", <<Trim(positionIn), Trim(jdIn)>>, "sent")
               /\ UNCHANGED <<currentSession, records, everLocal>>
  /\ SaveEffect

remoteStartRecord(p, data, t) ==
  LET role == IF p.position # <<>> THEN p.position ELSE inferPositionFromJd(p.jd)
      remoteQuestions == data.questions
      questionList == IF Len(remoteQuestions) > 0 THEN remoteQuestions
                      ELSE buildLocalQuestions(role)
  IN [key |-> "remote-" \o data.sessionId \o "-" \o ToString(t),
      sessionId |-> data.sessionId,
      mode |-> "remote",
      status |-> normalizeStatus(data.status),
      position |-> role,
      jdText |-> p.jd,
      resumeContextKey |-> resumeContextKey,
      createdAt |-> p.now,
      updatedAt |-> p.now,
      questionCount |-> OrElse(data.questionCount, Len(questionList)),
      answeredCount |-> OrElse(data.answeredCount, 0),
      currentIndex |-> Max(0, OrElse(data.currentIndex, 0)),
      questions |-> questionList,
      answers |-> NoAnswers,
      feedback |-> Null,
      remoteNumericId |-> ParseInt(data.sessionId)]

fallbackStartRecord(p, t) ==
  LET role == IF p.position # <<>> THEN p.position ELSE inferPositionFromJd(p.jd)
      localQuestions == buildLocalQuestions(role)
      localId == "local-" \o ToString(t)
  IN [key |-> localId,
      sessionId |-> localId,
      mode |-> "local",
      status |-> "active",
      position |-> role,
      jdText |-> p.jd,
      resumeContextKey |-> resumeContextKey,
      createdAt |-> p.now,
      updatedAt |-> p.now,
      questionCount |-> Len(localQuestions),
      answeredCount |-> 0,
      currentIndex |-> 0,
      questions |-> localQuestions,
      answers |-> NoAnswers,
      feedback |-> Null,
      remoteNumericId |-> {}]

(* The identities (keys) of the sessions that are in local mode *)
LocalKeys(session, list) ==
  (IF session # Null /\ session.mode = "local" THEN {session.key} ELSE {})
    \cup {list[i].key : i \in {j \in 1..Len(list) : list[j].mode = "local"}}

(* Installs a new value of currentSession and runs the effect on it *)
SetCurrentSession(session) ==
  /\ currentSession' = session
  /\ records' = AfterSessionChange(records, session)
  /\ everLocal' = everLocal \cup LocalKeys(session, AfterSessionChange(records, session))

(* startResolved without the check of the session id *)
startResolvedAnyBody(result) == result.ok

(* The try block of startSession resolves: the create call resolved and *)
(* the body carries a session id                                        *)
startResolved(result) == result.ok /\ result.data.sessionId # ""

startRecord(p, result, t) ==
  IF startResolved(result) THEN remoteStartRecord(p, result.data, t)
  ELSE fallbackStartRecord(p, t)

CompleteStart ==
  /\ UNCHANGED otherVars
  /\ pending.op = "start"
  /\ \E run \in ReplyRuns(4), data \in CreateReplies :
       LET result == callInterviewApi(run, data)
       IN /\ SetCurrentSession(startRecord(pending, result, now))
          /\ lastCall' = Call("start", RepliesSeen(run),
                              IF ~result.ok THEN "remote_failed"
                              ELSE IF data.sessionId = "" THEN "remote_no_id"
                              ELSE "remote_ok")
  /\ pending' = NoPending
  /\ UNCHANGED <<error, now>>
  /\ SaveEffect

----------------------------------------------------------------------------
(* The updaters handed to applySessionPatch *)

(* { ...prev, answers: { ...prev.answers, [currentQuestion.id]: trimmed } } *)
withLocalAnswer(prev, questionId, trimmed) ==
  [prev EXCEPT !.answers = WithAnswer(prev.answers, questionId, trimmed)]

(* A catch block that leaves the mode as it is *)
keepMode(prev) == prev

(* { ...prev, mode: "local" } *)
downgradeToLocal(prev) == [prev EXCEPT !.mode = "local"]

HasQuestion(questions, id) == \E i \in 1..Len(questions) : questions[i].id = id

(* questions and index after a remote answer/next reply *)
reconcileQuestions(prev, data) ==
  IF data.nextQuestion # Null /\ ~HasQuestion(prev.questions, data.nextQuestion.id)
  THEN Append(prev.questions, data.nextQuestion)
  ELSE prev.questions

(* reconcileIndex that takes the index of the reply as it is *)
reconcileIndexVerbatim(prev, data) ==
  LET questions == reconcileQuestions(prev, data)
      SameId(item) == item.id = data.nextQuestion.id
      idx == FindIndex({i \in 1..Len(questions) : SameId(questions[i])})
  IN IF data.currentIndex # {} THEN Max(0, OrElse(data.currentIndex, 0))
     ELSE IF data.nextQuestion # Null /\ idx > 0
          THEN idx - 1
          ELSE prev.currentIndex

reconcileIndex(prev, data) ==
  LET questions == reconcileQuestions(prev, data)
      SameId(item) == item.id = data.nextQuestion.id
      idx == FindIndex({i \in 1..Len(questions) : SameId(questions[i])})
      nextIndex ==
        IF data.currentIndex # {} THEN Max(0, OrElse(data.currentIndex, 0))
        ELSE IF data.nextQuestion # Null /\ idx > 0
             THEN idx - 1
             ELSE prev.currentIndex
  IN Min(nextIndex, Max(Len(questions) - 1, 0))

(* submitAnswer, the updater after a successful remote reply *)
reconcileAnswer(prev, data) ==
  [prev EXCEPT !.status = normalizeStatus(data.status),
               !.currentIndex = reconcileIndex(prev, data),
               !.questions = reconcileQuestions(prev, data)]

(* nextQuestion, the updater after a successful remote reply *)
reconcileNext(prev, data) ==
  [prev EXCEPT !.currentIndex = reconcileIndex(prev, data),
               !.status = normalizeStatus(IF data.status # "" THEN data.status
                                          ELSE prev.status),
               !.questions = reconcileQuestions(prev, data)]

(* A local updater without the cap at the last question *)
advanceLocalUncapped(prev) == [prev EXCEPT !.currentIndex = prev.currentIndex + 1]

(* A local updater that goes back to the first question after the last *)
advanceLocalWraps(prev) ==
  IF prev.currentIndex >= Len(prev.questions) - 1
  THEN [prev EXCEPT !.currentIndex = 0]
  ELSE [prev EXCEPT !.currentIndex = prev.currentIndex + 1]

(* nextQuestion, the local updater *)
advanceLocal(prev) ==
  IF prev.currentIndex >= Len(prev.questions) - 1 THEN prev
  ELSE [prev EXCEPT !.currentIndex = prev.currentIndex + 1]

(* endSession, both updaters: parsed is null on the local path *)
finishWith(prev, parsed) ==
  [prev EXCEPT !.status = "finished",
               !.feedback = IF parsed # Null THEN parsed
                            ELSE buildLocalFeedback(prev.answers, Len(prev.questions),
                                                    prev.position)]

(* applySessionPatch on the state, next being updater(currentSession): a *)
(* no-op without a current session                                       *)
Patch(next) ==
  IF currentSession = Null
  THEN UNCHANGED <<currentSession, records, everLocal>>
  ELSE SetCurrentSession(applySessionPatch(next, now))

----------------------------------------------------------------------------
(* submitAnswer *)

(* The early returns of submitAnswer without the one on a blank answer *)
submitAnswerGuardAcceptsBlank(session, answerInput) ==
  IF session = Null \/ currentQuestion(session) = Null THEN "ignored"
  ELSE IF session.status # "active" THEN "submit_not_active"
  ELSE "accepted"

(* The early returns of submitAnswer *)
submitAnswerGuard(session, answerInput) ==
  IF session = Null \/ currentQuestion(session) = Null THEN "ignored"
  ELSE IF session.status # "active" THEN "submit_not_active"
  ELSE IF Trim(answerInput) = <<>> THEN "empty_answer"
  ELSE "accepted"

BeginSubmit ==
  /\ UNCHANGED otherVars
  /\ pending = NoPending
  /\ \E answerInput \in AnswerInputs :
       LET question == currentQuestion(currentSession)
           trimmed == Trim(answerInput)
           guard == submitAnswerGuard(currentSession, answerInput)
           Write(prev) == withLocalAnswer(prev, question.id, trimmed)
       IN IF guard = "ignored" THEN Ignore("submit", trimmed)
          ELSE IF guard # "accepted" THEN Reject("submit", trimmed, guard)
          ELSE /\ error' = ""
               /\ Patch(Write(currentSession))
               /\ pending' = IF currentSession.mode # "remote" THEN NoPending
                             ELSE [op |-> "answer", session |-> currentSession,
                                   questionId |-> question.id, text |-> trimmed]
               /\ lastCall' = Call("submit", trimmed,
                                   IF currentSession.mode # "remote" THEN "local"
                                   ELSE "sent")
               /\ Advance
  /\ SaveEffect

CompleteSubmit ==
  /\ UNCHANGED otherVars
  /\ pending.op = "answer"
  /\ \E run \in ReplyRuns(2), data \in AnswerReplies :
       LET result == callInterviewApi(run, data)
           Reconcile(prev) == reconcileAnswer(prev, result.data)
       IN /\ IF result.ok THEN Patch(Reconcile(currentSession)) ELSE Patch(downgradeToLocal(currentSession))
          /\ lastCall' = Call("submit", RepliesSeen(run),
                              IF result.ok THEN "remote_ok" ELSE "remote_failed")
  /\ pending' = NoPending
  /\ UNCHANGED <<error, now>>
  /\ SaveEffect

----------------------------------------------------------------------------
(* nextQuestion *)

BeginNext ==
  /\ UNCHANGED otherVars
  /\ pending = NoPending
  /\ IF currentSession = Null THEN Ignore("next", <<>>)
     ELSE IF currentSession.status # "active"
     THEN Reject("next", <<>>, "next_not_active")
     ELSE /\ error' = ""
          /\ IF currentSession.mode = "remote"
             THEN /\ pending' = [op |-> "next", session |-> currentSession]
                  /\ lastCall' = Call("next", <<>>, "sent")
                  /\ UNCHANGED <<currentSession, records, everLocal>>
             ELSE /\ Patch(advanceLocal(currentSession))
                  /\ lastCall' = Call("next", <<currentSession.currentIndex>>, "local")
                  /\ UNCHANGED pending
          /\ Advance
  /\ SaveEffect

(* A catch block of nextQuestion that returns after the downgrade *)
nextFallbackReturns(prev, t) == applySessionPatch(downgradeToLocal(prev), t)

(* The catch block of nextQuestion followed by the local updater *)
nextFallback(prev, t) ==
  advanceLocal(applySessionPatch(downgradeToLocal(prev), t))

CompleteNext ==
  /\ UNCHANGED otherVars
  /\ pending.op = "next"
  /\ \E run \in ReplyRuns(2), data \in AnswerReplies :
       LET result == callInterviewApi(run, data)
           Reconcile(prev) == reconcileNext(prev, result.data)
           Fallback(prev) == nextFallback(prev, now)
       IN /\ IF result.ok THEN Patch(Reconcile(currentSession)) ELSE Patch(Fallback(currentSession))
          /\ lastCall' = Call("next", RepliesSeen(run),
                              IF result.ok THEN "remote_ok" ELSE "remote_failed")
  /\ pending' = NoPending
  /\ UNCHANGED <<error, now>>
  /\ SaveEffect

----------------------------------------------------------------------------
(* pauseSession, resumeSession *)

setStatus(prev, status) == [prev EXCEPT !.status = status]

pauseUpdater(prev) == setStatus(prev, "paused")

resumeUpdater(prev) == setStatus(prev, "active")

BeginPause ==
  /\ UNCHANGED otherVars
  /\ pending = NoPending
  /\ IF currentSession = Null \/ currentSession.status # "active"
     THEN Ignore("pause", <<>>)
     ELSE /\ IF currentSession.mode = "remote"
             THEN /\ pending' = [op |-> "pause", session |-> currentSession]
                  /\ lastCall' = Call("pause", <<>>, "sent")
                  /\ UNCHANGED <<currentSession, records, everLocal>>
             ELSE /\ Patch(pauseUpdater(currentSession))
                  /\ lastCall' = Call("pause", <<>>, "local")
                  /\ UNCHANGED pending
          /\ Advance
          /\ UNCHANGED error
  /\ SaveEffect

CompletePause ==
  /\ UNCHANGED otherVars
  /\ pending.op = "pause"
  /\ \E run \in ReplyRuns(2) :
       /\ Patch(pauseUpdater(currentSession))
       /\ lastCall' = Call("pause", RepliesSeen(run),
                           IF callInterviewApi(run, Null).ok THEN "remote_ok"
                           ELSE "remote_failed")
  /\ pending' = NoPending
  /\ UNCHANGED <<error, now>>
  /\ SaveEffect

BeginResume ==
  /\ UNCHANGED otherVars
  /\ pending = NoPending
  /\ IF currentSession = Null \/ currentSession.status # "paused"
     THEN Ignore("resume", <<>>)
     ELSE /\ IF currentSession.mode = "remote"
             THEN /\ pending' = [op |-> "resume", session |-> currentSession]
                  /\ lastCall' = Call("resume", <<>>, "sent")
                  /\ UNCHANGED <<currentSession, records, everLocal>>
             ELSE /\ Patch(resumeUpdater(currentSession))
                  /\ lastCall' = Call("resume", <<>>, "local")
                  /\ UNCHANGED pending
          /\ Advance
          /\ UNCHANGED error
  /\ SaveEffect

CompleteResume ==
  /\ UNCHANGED otherVars
  /\ pending.op = "resume"
  /\ \E run \in ReplyRuns(2) :
       /\ Patch(resumeUpdater(currentSession))
       /\ lastCall' = Call("resume", RepliesSeen(run),
                           IF callInterviewApi(run, Null).ok THEN "remote_ok"
                           ELSE "remote_failed")
  /\ pending' = NoPending
  /\ UNCHANGED <<error, now>>
  /\ SaveEffect

----------------------------------------------------------------------------
(* endSession *)

(* The local updater of endSession *)
finishLocal(prev) == finishWith(prev, Null)

(* A catch block of endSession that returns after the downgrade *)
endFallbackReturns(prev, t) == applySessionPatch(downgradeToLocal(prev), t)

(* The catch block of endSession followed by the local updater *)
endFallback(prev, t) ==
  finishLocal(applySessionPatch(downgradeToLocal(prev), t))

BeginEnd ==
  /\ UNCHANGED otherVars
  /\ pending = NoPending
  /\ IF currentSession = Null THEN Ignore("end", <<>>)
     ELSE /\ error' = ""
          /\ IF currentSession.mode = "remote"
             THEN /\ pending' = [op |-> "end", session |-> currentSession]
                  /\ lastCall' = Call("end", <<>>, "sent")
                  /\ UNCHANGED <<currentSession, records, everLocal>>
             ELSE /\ Patch(finishLocal(currentSession))
                  /\ lastCall' = Call("end", <<>>, "local")
                  /\ UNCHANGED pending
          /\ Advance
  /\ SaveEffect

CompleteEnd ==
  /\ UNCHANGED otherVars
  /\ pending.op = "end"
  /\ \E run \in ReplyRuns(3), raw \in RemoteFeedbacks :
       LET result == callInterviewApi(run, raw)
           Remote(prev) == finishWith(prev, toInterviewFeedback(result.data))
           Fallback(prev) == endFallback(prev, now)
       IN /\ IF result.ok THEN Patch(Remote(currentSession)) ELSE Patch(Fallback(currentSession))
          /\ lastCall' = Call("end", RepliesSeen(run),
                              IF result.ok THEN "remote_ok" ELSE "remote_failed")
  /\ pending' = NoPending
  /\ UNCHANGED <<error, now>>
  /\ SaveEffect

----------------------------------------------------------------------------
(* syncRemoteSessions *)

ListItemBase ==
  [id |-> {1}, sessionToken |-> "1", status |-> "", questionCount |-> {},
   answeredCount |-> {}, currentIndex |-> {}, resumeContextKey |-> ""]

ListItems ==
  {ListItemBase,
   [ListItemBase EXCEPT !.status = "completed", !.answeredCount = {2}, !.currentIndex = {5}],
   [ListItemBase EXCEPT !.resumeContextKey = ResumeKey]}

(* a || b || c on strings *)
FirstNonEmpty(a, b, c) == IF a # "" THEN a ELSE IF b # "" THEN b ELSE c

(* The filter of syncRemoteSessions on the remote items *)
scopedRemote(record) ==
  IF record.resumeContextKey = "" THEN resumeContextKey = "manual"
  ELSE record.resumeContextKey = resumeContextKey

normalizeRemoteSession(value, t) ==
  [key |-> "remote-history-" \o ToString(OrElse(value.id, 0)),
   sessionId |-> value.sessionToken,
   mode |-> "remote",
   status |-> normalizeStatus(value.status),
   position |-> <<>>,
   jdText |-> <<>>,
   resumeContextKey |-> value.resumeContextKey,
   createdAt |-> t,
   updatedAt |-> t,
   questionCount |-> OrElse(value.questionCount, 0),
   answeredCount |-> OrElse(value.answeredCount, 0),
   currentIndex |-> Max(0, OrElse(value.currentIndex, 0)),
   questions |-> <<>>,
   answers |-> NoAnswers,
   feedback |-> Null,
   remoteNumericId |-> value.id]

(* One iteration of scopedRemoteItems.forEach *)
mergeRemoteRecord(merged, record) ==
  LET Match(item) ==
        item.remoteNumericId = record.remoteNumericId \/ item.sessionId = record.sessionId
      existsIndex == FindIndex({i \in 1..Len(merged) : Match(merged[i])})
  IN IF existsIndex > 0
     THEN [merged EXCEPT ![existsIndex] =
             [record EXCEPT
                !.key = merged[existsIndex].key,
                !.resumeContextKey = FirstNonEmpty(merged[existsIndex].resumeContextKey,
                                                   record.resumeContextKey,
                                                   resumeContextKey),
                !.questions = IF Len(merged[existsIndex].questions) > 0
                              THEN merged[existsIndex].questions ELSE record.questions,
                !.feedback = IF merged[existsIndex].feedback # Null
                             THEN merged[existsIndex].feedback ELSE record.feedback]]
     ELSE Append(merged, record)

RECURSIVE mergeRemoteRecords(_, _)
mergeRemoteRecords(prev, items) ==
  IF items = <<>> THEN prev
  ELSE mergeRemoteRecords(mergeRemoteRecord(prev, Head(items)), Tail(items))

(* setRecords in syncRemoteSessions, on the list that holds the item value *)
MergeListed(value) ==
  LET remoteItems == <<normalizeRemoteSession(value, now)>>
      scopedRemoteItems == SelectSeq(remoteItems, scopedRemote)
      merged == Slice(mergeRemoteRecords(records, scopedRemoteItems), StoreCap)
  IN /\ scopedRemoteItems # <<>>
     /\ records' = merged
     /\ everLocal' = everLocal \cup LocalKeys(currentSession, merged)

SyncRemoteSessions ==
  /\ UNCHANGED otherVars
  /\ \E value \in ListItems : MergeListed(value)
  /\ Advance
  /\ lastCall' = Call("sync", <<>>, "remote_ok")
  /\ UNCHANGED <<currentSession, pending, error>>
  /\ SaveEffect

(* The remote list of an authority whose session 1 has the token "2" and *)
(* whose session 2 has the token "1"                                     *)
CrossedListItems ==
  {[ListItemBase EXCEPT !.sessionToken = "2"],
   [ListItemBase EXCEPT !.id = {2}]}

(* syncRemoteSessions on the list of that authority *)
SyncCrossedSessions ==
  /\ UNCHANGED otherVars
  /\ \E value \in CrossedListItems : MergeListed(value)
  /\ Advance
  /\ lastCall' = Call("sync", <<>>, "remote_ok")
  /\ UNCHANGED <<currentSession, pending, error>>
  /\ SaveEffect

----------------------------------------------------------------------------
(* onLoadRecord *)

DetailBase ==
  [status |-> "", questionCount |-> {}, answeredCount |-> {}, currentIndex |-> {},
   nextQuestion |-> Null, feedbackDraft |-> Null]

DetailReplies ==
  {DetailBase,
   [DetailBase EXCEPT !.status = "completed", !.answeredCount = {2}, !.currentIndex = {5}],
   [DetailBase EXCEPT !.nextQuestion = RemoteQuestion("r-2")],
   [DetailBase EXCEPT !.feedbackDraft = RemoteFeedbackDraft]}

hydrateRemoteRecord(record, payload) ==
  [record EXCEPT
     !.status = normalizeStatus(IF payload.status # "" THEN payload.status
                                ELSE record.status),
     !.questionCount = OrElse(payload.questionCount, record.questionCount),
     !.answeredCount = OrElse(payload.answeredCount, record.answeredCount),
     !.currentIndex = Max(0, OrElse(payload.currentIndex, record.currentIndex)),
     !.questions = IF payload.nextQuestion # Null /\ Len(record.questions) = 0
                   THEN <<payload.nextQuestion>> ELSE record.questions,
     !.feedback = IF toInterviewFeedback(payload.feedbackDraft) # Null
                  THEN toInterviewFeedback(payload.feedbackDraft) ELSE record.feedback]

(* setRecords in onLoadRecord: replace the record with the same key *)
replaceByKey(list, key, hydrated) ==
  LET SameKey(item) == item.key = key
      index == FindIndex({i \in 1..Len(list) : SameKey(list[i])})
  IN IF index > 0 THEN [list EXCEPT ![index] = hydrated] ELSE list

LoadAs(record, hydrated, outcome) ==
  /\ currentSession' = hydrated
  /\ records' = AfterSessionChange(replaceByKey(records, record.key, hydrated), hydrated)
  /\ everLocal' = everLocal \cup
       LocalKeys(hydrated, AfterSessionChange(replaceByKey(records, record.key, hydrated),
                                             hydrated))
  /\ error' = ""
  /\ lastCall' = Call("load", record.key, outcome)
  /\ Advance
  /\ UNCHANGED pending

OnLoadRecord ==
  /\ UNCHANGED otherVars
  /\ pending = NoPending
  /\ \E i \in 1..Len(records) :
       LET record == records[i]
       IN IF record.mode # "remote" \/ record.remoteNumericId = {}
          THEN LoadAs(record, record, "local")
          ELSE \E reply \in {"throw", "notok", "ok"}, payload \in DetailReplies :
                 IF reply = "throw"
                 THEN Reject("load", record.key, "load_failed")
                 ELSE IF reply = "notok"
                 THEN LoadAs(record, record, "remote_failed")
                 ELSE LoadAs(record, hydrateRemoteRecord(record, payload), "remote_ok")
  /\ SaveEffect

(* resetCurrentSession *)
ResetCurrentSession ==
  /\ UNCHANGED otherVars
  /\ pending = NoPending
  /\ currentSession # Null
  /\ currentSession' = Null
  /\ error' = ""
  /\ lastCall' = Call("reset", <<>>, "local")
  /\ Advance
  /\ UNCHANGED <<records, pending, everLocal>>
  /\ SaveEffect

----------------------------------------------------------------------------
NoReview == [called |-> FALSE]

NoCall == [pc |-> "none"]

AuthInit ==
  /\ authRef = Null
  /\ minted = 0
  /\ authFailureReason = ""
  /\ call = NoCall
  /\ loggedOut = FALSE
  /\ otherCall = NoCall

StoreInit ==
  /\ sessionStore = <<>>
  /\ resumeContextKey = "manual"

InterviewInit ==
  /\ currentSession = Null
  /\ records = <<>>
  /\ pending = NoPending
  /\ error = ""
  /\ now = 0
  /\ lastCall = Call("none", <<>>, "none")
  /\ everLocal = {}

Init ==
  /\ InterviewInit
  /\ reviewA = NoReview
  /\ reviewB = NoReview
  /\ errorShown = NoReview
  /\ AuthInit
  /\ authStorage = Null
  /\ StoreInit

Next ==
  \/ BeginStart
  \/ CompleteStart
  \/ BeginSubmit
  \/ CompleteSubmit
  \/ BeginNext
  \/ CompleteNext
  \/ BeginPause
  \/ CompletePause
  \/ BeginResume
  \/ CompleteResume
  \/ BeginEnd
  \/ CompleteEnd
  \/ SyncRemoteSessions
  \/ OnLoadRecord
  \/ ResetCurrentSession

Spec == Init /\ [][Next]_vars

----------------------------------------------------------------------------
(* The page on a session in local mode: one started while the remote     *)
(* authority was down, or one started remotely whose first advance       *)
(* failed. The caller goes on calling operations, and the remote calls   *)
(* settle, as long as the clock allows                                   *)

(* The states of the page after startSession fell back to a local session, *)
(* and after startSession got a remote session and nextQuestion fell back  *)
(* to the local advance                                                    *)
InitLocal ==
  LET startedCall == [op |-> "start", position |-> <<>>, jd |-> <<2>>, now |-> 0]
  IN /\ resumeContextKey = "manual"
     /\ \/ /\ currentSession = fallbackStartRecord(startedCall, 1)
           /\ now = 1
           /\ lastCall = Call("start", <<>>, "remote_failed")
        \/ /\ currentSession =
                applySessionPatch(
                  nextFallback(remoteStartRecord(startedCall, CreateBase, 1), 2), 2)
           /\ now = 2
           /\ lastCall = Call("next", <<>>, "remote_failed")
     /\ records = <<currentSession>>
     /\ sessionStore = records
     /\ everLocal = {currentSession.key}
     /\ pending = NoPending
     /\ error = ""
     /\ reviewA = NoReview
     /\ reviewB = NoReview
     /\ errorShown = NoReview
     /\ AuthInit
     /\ authStorage = Null

NextLocal ==
  \/ BeginSubmit
  \/ CompleteSubmit
  \/ BeginNext
  \/ CompleteNext
  \/ BeginPause
  \/ CompletePause
  \/ BeginResume
  \/ CompleteResume
  \/ BeginEnd
  \/ CompleteEnd
  \/ SyncRemoteSessions
  \/ OnLoadRecord
  \/ ResetCurrentSession

SpecLocal == InitLocal /\ [][NextLocal]_vars /\ WF_vars(NextLocal)

----------------------------------------------------------------------------
(* The interview page over the durable list of records: the page is opened *)
(* with one resumeContextKey after another                                 *)

(* The page is opened with a resumeContextKey: its state starts empty, the *)
(* effect on [resumeContextKey] sets the records from the localStorage and *)
(* the effect on [records] writes them back                                *)
OpenPage ==
  /\ pending = NoPending
  /\ \E contextKey \in ContextKeys :
       /\ resumeContextKey' = contextKey
       /\ records' = initialRecords(sessionStore, contextKey)
  /\ currentSession' = Null
  /\ error' = ""
  /\ lastCall' = Call("open", <<>>, "local")
  /\ Advance
  /\ SaveEffect
  /\ UNCHANGED <<pending, everLocal, reviewVars, authVars>>

NextStore ==
  \/ OpenPage
  \/ BeginStart
  \/ CompleteStart
  \/ SyncRemoteSessions
  \/ OnLoadRecord

SpecStore == Init /\ [][NextStore]_vars

----------------------------------------------------------------------------
(* The interview page with a remote authority whose session tokens read *)
(* as the numeric ids of other sessions                                 *)

NextIdentity ==
  \/ BeginStart
  \/ CompleteStart
  \/ BeginPause
  \/ CompletePause
  \/ SyncCrossedSessions

SpecIdentity == Init /\ [][NextIdentity]_vars

----------------------------------------------------------------------------
(* The interview page opened over a list of records that is empty, one *)
(* below the cap, or at the cap                                        *)

(* The records of n local sessions started before the page was opened, *)
(* the latest first                                                    *)
PastRecords(n) ==
  [i \in 1..n |->
     fallbackStartRecord([position |-> <<>>, jd |-> <<2>>, now |-> 0 - i], 0 - i)]

(* The lists the localStorage holds when the page is opened: none, one *)
(* below the cap, the cap                                              *)
StoredLists == {PastRecords(n) : n \in {0, StoreCap - 1, StoreCap}}

InitCap ==
  /\ resumeContextKey = "manual"
  /\ sessionStore \in StoredLists
  /\ records = initialRecords(sessionStore, "manual")
  /\ currentSession = Null
  /\ pending = NoPending
  /\ error = ""
  /\ now = 0
  /\ lastCall = Call("none", <<>>, "none")
  /\ everLocal = LocalKeys(Null, records)
  /\ reviewA = NoReview
  /\ reviewB = NoReview
  /\ errorShown = NoReview
  /\ AuthInit
  /\ authStorage = Null

NextCap ==
  \/ OpenPage
  \/ BeginStart
  \/ CompleteStart
  \/ BeginSubmit
  \/ CompleteSubmit
  \/ SyncRemoteSessions

SpecCap == InitCap /\ [][NextCap]_vars

----------------------------------------------------------------------------
(* buildLocalFeedback on its own: two invocations on inputs drawn from the *)
(* sets below                                                              *)

(* Answer texts: blank, one below the first threshold once trimmed, at the *)
(* first threshold, at the second threshold                                *)
ReviewTexts ==
  {<<Blank>>,
   Rep(3, LengthThreshold1 - 1) \o <<Blank>>,
   Rep(3, LengthThreshold1),
   Rep(3, LengthThreshold2)}

(* The ids of the fallback questions, in their order *)
QuestionIds ==
  [i \in 1..Len(buildLocalQuestions(<<>>)) |-> buildLocalQuestions(<<>>)[i].id]

(* The answers maps: the first n questions answered, n from 0 to all *)
ReviewAnswers ==
  {[id \in {QuestionIds[i] : i \in 1..Len(texts)} |->
      texts[CHOOSE i \in 1..Len(texts) : QuestionIds[i] = id]] :
     texts \in UNION {[1..n -> ReviewTexts] : n \in 0..Len(QuestionIds)}}

ReviewTotals == {1, Len(QuestionIds)}

ReviewPositions == {<<>>, <<4>>}

Invocation(answers, totalQuestions, position) ==
  [called |-> TRUE, answers |-> answers, totalQuestions |-> totalQuestions,
   position |-> position,
   feedback |-> buildLocalFeedback(answers, totalQuestions, position)]

BuildFeedbackA ==
  /\ reviewA = NoReview
  /\ \E answers \in ReviewAnswers, total \in ReviewTotals, position \in ReviewPositions :
       reviewA' = Invocation(answers, total, position)
  /\ UNCHANGED <<interviewVars, reviewB, errorShown, authVars, storeVars>>

BuildFeedbackB ==
  /\ reviewA # NoReview
  /\ reviewB = NoReview
  /\ \E answers \in ReviewAnswers, total \in ReviewTotals, position \in ReviewPositions :
       reviewB' = Invocation(answers, total, position)
  /\ UNCHANGED <<interviewVars, reviewA, errorShown, authVars, storeVars>>

NextReview ==
  \/ BuildFeedbackA
  \/ BuildFeedbackB

SpecReview == Init /\ [][NextReview]_vars

----------------------------------------------------------------------------
(* toErrorMessage on its own: one invocation on a payload drawn from the  *)
(* payloads below. A text is a sequence over Blank, 1 (a character of an  *)
(* ordinary message) and 2 (a fragment that one of the technical error    *)
(* patterns matches); 6 and 8 are the "(requestId:" and ")" of the        *)
(* template, 4 the fixed text of the fallback.                            *)

FallbackText == <<4>>

ErrorTexts ==
  {<<>>} \cup {<<a>> : a \in {Blank, 1, 2}}
         \cup {<<a, b>> : a \in {Blank, 1, 2}, b \in {Blank, 1, 2}}

(* The payloads: not an object (Null), or an object whose message,   *)
(* requestId and detail are strings, the empty one standing for an   *)
(* absent field as well                                              *)
ErrorPayloads ==
  {Null} \cup [message : ErrorTexts, requestId : {<<>>, <<1>>, <<2>>, <<1, Blank>>},
              detail : {<<>>, <<1>>, <<Blank>>, <<2, 1>>}]

containsTechnicalDetail(message) == \E i \in 1..Len(message) : message[i] = 2

toUserFriendlyError(raw, fallback) ==
  LET message == Trim(raw)
  IN IF message = <<>> THEN fallback
     ELSE IF containsTechnicalDetail(message) THEN fallback
     ELSE message

(* toErrorMessage that shows the text of the payload as it is *)
toErrorMessageUnfiltered(payload) ==
  IF payload = Null THEN FallbackText
  ELSE IF payload.message # <<>>
  THEN IF payload.requestId # <<>>
       THEN payload.message \o <<Blank, 6, Blank>> \o payload.requestId \o <<8>>
       ELSE payload.message
  ELSE IF payload.detail # <<>> THEN payload.detail
  ELSE FallbackText

toErrorMessage(payload) ==
  IF payload = Null THEN FallbackText
  ELSE IF payload.message # <<>>
  THEN toUserFriendlyError(
         IF payload.requestId # <<>>
         THEN payload.message \o <<Blank, 6, Blank>> \o payload.requestId \o <<8>>
         ELSE payload.message,
         FallbackText)
  ELSE IF payload.detail # <<>> THEN toUserFriendlyError(payload.detail, FallbackText)
  ELSE FallbackText

ShowError ==
  /\ errorShown = NoReview
  /\ \E payload \in ErrorPayloads :
       errorShown' = [called |-> TRUE, payload |-> payload, text |-> toErrorMessage(payload)]
  /\ UNCHANGED <<interviewVars, reviewA, reviewB, authVars, storeVars>>

NextError ==
  \/ ShowError

SpecError == Init /\ [][NextError]_vars


----------------------------------------------------------------------------
(* useClientAuth: the credential record and apiFetch.  A credential record *)
(* has sessionId, accessToken, refreshToken ("" for null), mode, updatedAt, *)
(* userName ("" for null) and expiresAt (a set of at most one time).        *)

isAuthExpired(state, t) ==
  state.expiresAt # {} /\ t >= OrElse(state.expiresAt, 0)

(* mode === "custom" && isAuthExpired(state) && !state.refreshToken *)
expiredWithoutRefresh(state, t) ==
  state.mode = "custom" /\ isAuthExpired(state, t) /\ state.refreshToken = ""

(* The k-th credential generated by generateSessionId and generateAccessToken *)
createGuestAuthState(k, t) ==
  [sessionId |-> "sess_" \o ToString(k),
   accessToken |-> "local_" \o ToString(k),
   refreshToken |-> "",
   mode |-> "local",
   updatedAt |-> t,
   userName |-> "",
   expiresAt |-> {}]

(* payload: token, refreshToken, expiresAt; the session id is generated *)
createAuthenticatedAuthState(payload, k, t) ==
  [sessionId |-> "sess_" \o ToString(k),
   accessToken |-> IF payload.token # "" THEN payload.token
                   ELSE "local_" \o ToString(k),
   refreshToken |-> payload.refreshToken,
   mode |-> "custom",
   updatedAt |-> t,
   userName |-> "candidate",
   expiresAt |-> payload.expiresAt]

(* loadClientAuthState on a stored value: null when nothing usable is stored *)
normalizeClientAuthState(value, t) ==
  IF value = Null THEN Null
  ELSE IF value.sessionId = "" \/ value.accessToken = "" THEN Null
  ELSE IF expiredWithoutRefresh(value, t) THEN Null
  ELSE value

(* The credential state as one value: authRef.current, storage, minted *)
Au == [ref |-> authRef, storage |-> authStorage, minted |-> minted]

SetAuth(au) ==
  /\ authRef' = au.ref
  /\ authStorage' = au.storage
  /\ minted' = au.minted

(* persistState without the degradation of an expired record *)
persistStateAsIs(au, next, t) ==
  [au EXCEPT !.ref = next, !.storage = next]

persistState(au, next, t) ==
  IF expiredWithoutRefresh(next, t)
  THEN [ref |-> createGuestAuthState(au.minted + 1, t),
        storage |-> createGuestAuthState(au.minted + 1, t),
        minted |-> au.minted + 1]
  ELSE [au EXCEPT !.ref = next, !.storage = next]

(* persistState(createGuestAuthState()) *)
persistGuest(au, t) ==
  persistState([au EXCEPT !.minted = @ + 1], createGuestAuthState(au.minted + 1, t), t)

(* ensureAuthState without the test of the expiry *)
ensureAuthStateUnchecked(au, t) ==
  IF au.ref # Null THEN au
  ELSE IF normalizeClientAuthState(au.storage, t) # Null
       THEN [au EXCEPT !.ref = normalizeClientAuthState(au.storage, t)]
       ELSE [ref |-> createGuestAuthState(au.minted + 1, t),
             storage |-> createGuestAuthState(au.minted + 1, t),
             minted |-> au.minted + 1]

(* ensureAuthState: the credential state afterwards, ref being the record *)
(* returned                                                              *)
ensureAuthState(au, t) ==
  IF au.ref # Null
  THEN IF expiredWithoutRefresh(au.ref, t) THEN persistGuest(au, t) ELSE au
  ELSE IF normalizeClientAuthState(au.storage, t) # Null
       THEN [au EXCEPT !.ref = normalizeClientAuthState(au.storage, t)]
       ELSE [ref |-> createGuestAuthState(au.minted + 1, t),
             storage |-> createGuestAuthState(au.minted + 1, t),
             minted |-> au.minted + 1]

(* syncAuthStateFromResponse: the record returned; it is saved when it *)
(* differs from current                                                *)
syncAuthStateFromResponse(current, responseSessionId, t) ==
  IF responseSessionId = "" \/ responseSessionId = current.sessionId THEN current
  ELSE [current EXCEPT !.sessionId = responseSessionId, !.updatedAt = t]

----------------------------------------------------------------------------
(* tryAutoRefreshAuth *)

RefreshEndpoints ==
  <<"/api/auth/refresh", "/api/auth/token/refresh", "/api/auth/session/refresh",
    "/api/auth/login/refresh">>

RefreshPayloads == <<"refreshToken", "refresh_token", "token">>

RefreshReply(kind) ==
  [kind |-> kind, accessToken |-> "", refreshToken |-> "", expiresAt |-> {},
   sessionId |-> ""]

(* The replies of the auth authority to the refresh requests of one call, *)
(* in the order of the requests; the last reply repeats.  notfound is 404 *)
(* or 405, rejected another non-2xx, no_token a 2xx without an access     *)
(* token, throw a rejected fetch.                                         *)
RefreshRuns ==
  {<<[RefreshReply("ok") EXCEPT !.accessToken = "t2"]>>,
   <<RefreshReply("rejected"), RefreshReply("throw"),
     [RefreshReply("ok") EXCEPT !.accessToken = "t2", !.refreshToken = "r2",
                                !.sessionId = "srv"]>>,
   <<RefreshReply("rejected")>>,
   <<RefreshReply("notfound")>>,
   <<RefreshReply("rejected"), RefreshReply("no_token"), RefreshReply("notfound")>>}

ReplyAt(run, i) == IF i <= Len(run) THEN run[i] ELSE run[Len(run)]

(* The loops over endpoints and payloads, at endpoint e, payload p and *)
(* request i: the reply that ended them and the requests sent          *)
RECURSIVE refreshLoop(_, _, _, _)
refreshLoop(run, e, p, i) ==
  IF e > Len(RefreshEndpoints) THEN [ok |-> FALSE, requests |-> i - 1]
  ELSE IF p > Len(RefreshPayloads) THEN refreshLoop(run, e + 1, 1, i)
  ELSE IF ReplyAt(run, i).kind = "notfound" THEN refreshLoop(run, e + 1, 1, i + 1)
  ELSE IF ReplyAt(run, i).kind = "ok"
       THEN [ok |-> TRUE, requests |-> i, data |-> ReplyAt(run, i)]
       ELSE refreshLoop(run, e, p + 1, i + 1)

(* tryAutoRefreshAuth: candidate is the record returned, Null for null *)
tryAutoRefreshAuth(current, run, t) ==
  IF current.refreshToken = "" THEN [candidate |-> Null, requests |-> 0]
  ELSE LET loop == refreshLoop(run, 1, 1, 1)
       IN IF ~loop.ok THEN [candidate |-> Null, requests |-> loop.requests]
          ELSE [candidate |->
                  [current EXCEPT
                     !.sessionId = IF loop.data.sessionId # "" THEN loop.data.sessionId
                                   ELSE @,
                     !.accessToken = loop.data.accessToken,
                     !.refreshToken = IF loop.data.refreshToken # ""
                                      THEN loop.data.refreshToken ELSE @,
                     !.expiresAt = IF loop.data.expiresAt # {} THEN loop.data.expiresAt
                                   ELSE @,
                     !.updatedAt = t,
                     !.mode = "custom"],
                requests |-> loop.requests]

----------------------------------------------------------------------------
(* apiFetch *)

ResponseStatuses == {200, 401, 500}

ResponseSessionIds == {"", "srv"}

(* The call completed: status of the response returned, reason surfaced *)
Done(status, reason) ==
  [call EXCEPT !.pc = "done", !.status = status, !.reason = reason]

(* const current = ensureAuthState(); authFetch(requestInput, init, current) *)
BeginFetch ==
  /\ call.pc \in {"none", "done"}
  /\ LET au == ensureAuthState(Au, now)
     IN /\ SetAuth(au)
        /\ call' = [pc |-> "first", current |-> au.ref, sent |-> <<au.ref>>,
                    sentAt |-> <<now>>, refreshes |-> 0, refreshRun |-> <<>>,
                    refreshed |-> Null,
                    status |-> 0, reason |-> ""]
  /\ Advance
  /\ UNCHANGED <<authFailureReason, loggedOut, otherCall>>
  /\ UNCHANGED <<currentSession, records, pending, error, lastCall, everLocal, reviewVars, storeVars>>

(* The reason without the test of the expiry *)
noRefreshReasonUnauthorized(current, t) == "unauthorized"

(* The reason surfaced when no refresh is possible *)
noRefreshReason(current, t) ==
  IF isAuthExpired(current, t) THEN "expired" ELSE "unauthorized"

(* apiFetch after the first response, up to the refresh or the return *)
FirstResponse ==
  /\ call.pc = "first"
  /\ \E status \in ResponseStatuses, responseSessionId \in ResponseSessionIds :
       LET current == call.current
           next == syncAuthStateFromResponse(current, responseSessionId, now)
           au == IF next # current THEN persistState(Au, next, now) ELSE Au
       IN IF status # 401 \/ current.mode # "custom"
          THEN /\ SetAuth(au)
               /\ call' = Done(status, "")
               /\ UNCHANGED authFailureReason
          ELSE IF current.refreshToken # ""
          THEN /\ SetAuth(au)
               /\ call' = [call EXCEPT !.pc = "refresh"]
               /\ UNCHANGED authFailureReason
          ELSE /\ SetAuth(persistGuest(au, now))
               /\ authFailureReason' = noRefreshReason(current, now)
               /\ call' = Done(status, noRefreshReason(current, now))
  /\ UNCHANGED <<interviewVars, reviewVars, storeVars, loggedOut, otherCall>>

(* tryAutoRefreshAuth resolves: the replay is sent, or the call gives up *)
RefreshDone ==
  /\ call.pc = "refresh"
  /\ \E run \in RefreshRuns :
       LET refresh == tryAutoRefreshAuth(call.current, run, now)
           au == persistState(Au, refresh.candidate, now)
       IN IF refresh.candidate # Null
          THEN /\ SetAuth(au)
               /\ authFailureReason' = ""
               /\ call' = [call EXCEPT !.pc = "retry", !.refreshed = au.ref,
                                       !.sent = Append(@, au.ref),
                                       !.sentAt = Append(@, now),
                                       !.refreshes = refresh.requests,
                                       !.refreshRun = run]
          ELSE /\ SetAuth(persistGuest(Au, now))
               /\ authFailureReason' = "refresh_failed"
               /\ call' = [Done(401, "refresh_failed") EXCEPT
                             !.refreshes = refresh.requests, !.refreshRun = run]
  /\ UNCHANGED <<interviewVars, reviewVars, storeVars, loggedOut, otherCall>>

(* The replay handled like the first send: a 401 starts another refresh *)
RetryResponseRefreshesAgain ==
  /\ call.pc = "retry"
  /\ \E status \in ResponseStatuses :
       IF status # 401
       THEN /\ SetAuth(persistState(Au, call.refreshed, now))
            /\ call' = Done(status, "")
       ELSE /\ UNCHANGED <<authRef, authStorage, minted>>
            /\ call' = [call EXCEPT !.pc = "refresh", !.current = call.refreshed]
  /\ UNCHANGED <<interviewVars, reviewVars, storeVars, loggedOut, authFailureReason, otherCall>>

(* apiFetch after the response to the replay *)
RetryResponse ==
  /\ call.pc = "retry"
  /\ \E status \in ResponseStatuses, responseSessionId \in ResponseSessionIds :
       LET refreshedState == call.refreshed
           next == syncAuthStateFromResponse(refreshedState, responseSessionId, now)
           saved == IF next # refreshedState THEN [Au EXCEPT !.storage = next] ELSE Au
       IN IF status # 401
          THEN /\ SetAuth(persistState(saved, next, now))
               /\ call' = Done(status, "")
               /\ UNCHANGED authFailureReason
          ELSE /\ SetAuth(persistGuest(saved, now))
               /\ authFailureReason' = "refresh_failed"
               /\ call' = Done(status, "refresh_failed")
  /\ UNCHANGED <<interviewVars, reviewVars, storeVars, loggedOut, otherCall>>

----------------------------------------------------------------------------
(* The mount effect of useClientAuth, login, logout, applyAccessToken, *)
(* rotateSession                                                       *)

(* What localStorage holds when the page opens *)
StoredCredentials ==
  {Null,
   createGuestAuthState(0, 0),
   [createAuthenticatedAuthState(
      [token |-> "t0", refreshToken |-> "", expiresAt |-> {0}], 0, 0)
      EXCEPT !.sessionId = "srv"],
   createAuthenticatedAuthState(
      [token |-> "t0", refreshToken |-> "r0", expiresAt |-> {0}], 0, 0)}

ReasonParams == {"", "expired"}

LoginPayloads ==
  {[token |-> "t1", refreshToken |-> refreshToken, expiresAt |-> expiresAt] :
     refreshToken \in {"", "r1"}, expiresAt \in {{}, {now}, {now + 2}}}

TokenInputs == {"", " ", "t3"}

(* token.trim() *)
TrimToken(token) == IF token = " " THEN "" ELSE token

AuthFrame == UNCHANGED <<currentSession, records, pending, error, lastCall, everLocal,
                         reviewVars, storeVars>>

LoadEffect ==
  /\ authRef = Null
  /\ LET loaded == normalizeClientAuthState(authStorage, now)
     IN IF loaded # Null
        THEN SetAuth([Au EXCEPT !.ref = loaded, !.storage = loaded])
        ELSE SetAuth([ref |-> createGuestAuthState(minted + 1, now),
                      storage |-> createGuestAuthState(minted + 1, now),
                      minted |-> minted + 1])
  /\ authFailureReason' \in ReasonParams
  /\ Advance
  /\ AuthFrame
  /\ UNCHANGED <<call, otherCall, loggedOut>>

Login ==
  /\ \E payload \in LoginPayloads :
       SetAuth(persistState([Au EXCEPT !.minted = @ + 1],
                            createAuthenticatedAuthState(payload, minted + 1, now), now))
  /\ authFailureReason' = ""
  /\ loggedOut' = FALSE
  /\ Advance
  /\ AuthFrame
  /\ UNCHANGED <<call, otherCall>>

Logout ==
  /\ SetAuth(persistGuest(Au, now))
  /\ authFailureReason' = ""
  /\ loggedOut' = TRUE
  /\ Advance
  /\ AuthFrame
  /\ UNCHANGED <<call, otherCall>>

ApplyAccessToken ==
  /\ \E token \in TokenInputs :
       LET normalized == TrimToken(token)
           au == ensureAuthState(Au, now)
           next == [au.ref EXCEPT !.accessToken = normalized,
                                  !.mode = "custom",
                                  !.updatedAt = now,
                                  !.userName = IF @ = "" THEN "candidate" ELSE @]
       IN IF normalized = ""
          THEN SetAuth(persistGuest(Au, now)) /\ loggedOut' = TRUE
          ELSE SetAuth(persistState(au, next, now)) /\ loggedOut' = FALSE
  /\ authFailureReason' = ""
  /\ Advance
  /\ AuthFrame
  /\ UNCHANGED <<call, otherCall>>

RotateSession ==
  /\ LET au == ensureAuthState(Au, now)
         next == [au.ref EXCEPT !.sessionId = "sess_" \o ToString(au.minted + 1),
                                !.updatedAt = now]
     IN SetAuth(persistState([au EXCEPT !.minted = @ + 1], next, now))
  /\ Advance
  /\ AuthFrame
  /\ UNCHANGED <<authFailureReason, call, otherCall, loggedOut>>

InitAuth ==
  /\ InterviewInit
  /\ reviewA = NoReview
  /\ reviewB = NoReview
  /\ errorShown = NoReview
  /\ AuthInit
  /\ authStorage \in StoredCredentials
  /\ StoreInit

NextAuth ==
  \/ LoadEffect
  \/ Login
  \/ Logout
  \/ ApplyAccessToken
  \/ RotateSession
  \/ BeginFetch
  \/ FirstResponse
  \/ RefreshDone
  \/ RetryResponse

SpecAuth == InitAuth /\ [][NextAuth]_vars

----------------------------------------------------------------------------
(* Two apiFetch calls that overlap: the second is begun while the first *)
(* is in flight, and each goes through the steps of apiFetch            *)

OtherDone(status, reason) ==
  [otherCall EXCEPT !.pc = "done", !.status = status, !.reason = reason]

OtherBeginFetch ==
  /\ call.pc \notin {"none", "done"}
  /\ otherCall.pc \in {"none", "done"}
  /\ LET au == ensureAuthState(Au, now)
     IN /\ SetAuth(au)
        /\ otherCall' = [pc |-> "first", current |-> au.ref, sent |-> <<au.ref>>,
                    sentAt |-> <<now>>, refreshes |-> 0, refreshRun |-> <<>>,
                    refreshed |-> Null,
                    status |-> 0, reason |-> ""]
  /\ Advance
  /\ UNCHANGED <<authFailureReason, loggedOut, call>>
  /\ UNCHANGED <<currentSession, records, pending, error, lastCall, everLocal, reviewVars, storeVars>>

OtherFirstResponse ==
  /\ otherCall.pc = "first"
  /\ \E status \in ResponseStatuses, responseSessionId \in ResponseSessionIds :
       LET current == otherCall.current
           next == syncAuthStateFromResponse(current, responseSessionId, now)
           au == IF next # current THEN persistState(Au, next, now) ELSE Au
       IN IF status # 401 \/ current.mode # "custom"
          THEN /\ SetAuth(au)
               /\ otherCall' = OtherDone(status, "")
               /\ UNCHANGED authFailureReason
          ELSE IF current.refreshToken # ""
          THEN /\ SetAuth(au)
               /\ otherCall' = [otherCall EXCEPT !.pc = "refresh"]
               /\ UNCHANGED authFailureReason
          ELSE /\ SetAuth(persistGuest(au, now))
               /\ authFailureReason' = noRefreshReason(current, now)
               /\ otherCall' = OtherDone(status, noRefreshReason(current, now))
  /\ UNCHANGED <<interviewVars, reviewVars, storeVars, loggedOut, call>>

OtherRefreshDone ==
  /\ otherCall.pc = "refresh"
  /\ \E run \in RefreshRuns :
       LET refresh == tryAutoRefreshAuth(otherCall.current, run, now)
           au == persistState(Au, refresh.candidate, now)
       IN IF refresh.candidate # Null
          THEN /\ SetAuth(au)
               /\ authFailureReason' = ""
               /\ otherCall' = [otherCall EXCEPT !.pc = "retry", !.refreshed = au.ref,
                                       !.sent = Append(@, au.ref),
                                       !.sentAt = Append(@, now),
                                       !.refreshes = refresh.requests,
                                       !.refreshRun = run]
          ELSE /\ SetAuth(persistGuest(Au, now))
               /\ authFailureReason' = "refresh_failed"
               /\ otherCall' = [OtherDone(401, "refresh_failed") EXCEPT
                             !.refreshes = refresh.requests, !.refreshRun = run]
  /\ UNCHANGED <<interviewVars, reviewVars, storeVars, loggedOut, call>>

OtherRetryResponse ==
  /\ otherCall.pc = "retry"
  /\ \E status \in ResponseStatuses, responseSessionId \in ResponseSessionIds :
       LET refreshedState == otherCall.refreshed
           next == syncAuthStateFromResponse(refreshedState, responseSessionId, now)
           saved == IF next # refreshedState THEN [Au EXCEPT !.storage = next] ELSE Au
       IN IF status # 401
          THEN /\ SetAuth(persistState(saved, next, now))
               /\ otherCall' = OtherDone(status, "")
               /\ UNCHANGED authFailureReason
          ELSE /\ SetAuth(persistGuest(saved, now))
               /\ authFailureReason' = "refresh_failed"
               /\ otherCall' = OtherDone(status, "refresh_failed")
  /\ UNCHANGED <<interviewVars, reviewVars, storeVars, loggedOut, call>>

NextOverlap ==
  \/ BeginFetch
  \/ FirstResponse
  \/ RefreshDone
  \/ RetryResponse
  \/ OtherBeginFetch
  \/ OtherFirstResponse
  \/ OtherRefreshDone
  \/ OtherRetryResponse

SpecOverlap == InitAuth /\ [][NextOverlap]_vars

----------------------------------------------------------------------------
(* Properties *)

(* The current session and every record of the Session Store *)
AllSessions ==
  {records[i] : i \in 1..Len(records)}
    \cup (IF currentSession = Null THEN {} ELSE {currentSession})

CompletionOutcomes == {"remote_ok", "remote_no_id", "remote_failed"}

(* C1: in every reachable state, every session (the current one and every *)
(* Store record) has answeredCount equal to the number of question ids    *)
(* whose stored answer text is non-empty.                                 *)
C1_AnsweredCountMatchesAnswers ==
  \A s \in AllSessions : s.answeredCount = Cardinality(NonEmptyKeys(s.answers))

(* C2: once a session's mode has been local, no submitAnswer, advance, *)
(* pause, resume or finish puts a remote call in flight for it.        *)
C2_NoRemoteCallOnceLocal ==
  [][(pending' # pending /\ pending'.op \in {"answer", "next", "pause", "resume", "end"})
       => pending'.session.key \notin everLocal]_vars

(* C3: a session identity that has had mode local never has a record *)
(* (current session or Store record) with mode remote afterwards.    *)
C3_ModeNeverBackToRemote ==
  \A s \in AllSessions : s.key \in everLocal => s.mode = "local"


(* C4: a finish called on an IN_PROGRESS or PAUSED session, in either mode, *)
(* ends with status COMPLETED and a non-null review whatever the remote     *)
(* review request does; when the request fails the mode becomes local and   *)
(* the review is the fallback review of the session's answers.              *)
C4_FinishAlwaysCompletes ==
  [][(/\ lastCall'.op = "end"
      /\ lastCall'.outcome \in {"local"} \cup CompletionOutcomes
      /\ currentSession # Null
      /\ currentSession.status \in {"active", "paused"})
       => /\ currentSession' # Null
          /\ currentSession'.status = "finished"
          /\ currentSession'.feedback # Null
          /\ lastCall'.outcome = "remote_failed"
               => /\ currentSession'.mode = "local"
                  /\ currentSession'.feedback =
                       buildLocalFeedback(currentSession.answers,
                                          Len(currentSession.questions),
                                          currentSession.position)]_vars

(* A paused remote session whose finish request failed *)
C4_Witness ==
  /\ lastCall = Call("end", <<>>, "remote_failed")
  /\ pending.op = "none"
  /\ currentSession # Null
  /\ currentSession.status = "finished"
  /\ currentSession.mode = "local"
  /\ currentSession.feedback # Null
  /\ Cardinality(NonEmptyKeys(currentSession.answers)) > 0

(* C5: submitAnswer on a PAUSED or COMPLETED session, or with blank text on *)
(* an IN_PROGRESS session, is rejected with a validation error, puts no     *)
(* remote call in flight and leaves the session and the Store unchanged.    *)
C5_IllegalSubmitRejected ==
  [][(/\ lastCall'.op = "submit"
      /\ lastCall'.outcome \notin CompletionOutcomes
      /\ currentSession # Null
      /\ \/ currentSession.status \in {"paused", "finished"}
         \/ currentSession.status = "active" /\ lastCall'.arg = <<>>)
       => /\ lastCall'.outcome = "rejected"
          /\ error' \in {"submit_not_active", "empty_answer"}
          /\ pending' = NoPending
          /\ currentSession' = currentSession
          /\ records' = records]_vars

(* C6: start with job text and role text both empty after trimming fails *)
(* validation: no remote call, no new record, current session and Store  *)
(* unchanged.                                                            *)
C6_EmptyStartRejected ==
  [][(lastCall'.op = "start" /\ lastCall'.outcome \notin CompletionOutcomes
        /\ lastCall'.arg = << <<>>, <<>> >>)
       => /\ lastCall'.outcome = "rejected"
          /\ error' = "need_position_or_jd"
          /\ pending' = NoPending
          /\ currentSession' = currentSession
          /\ records' = records]_vars

(* A start with blank texts was rejected while a session exists *)
C6_Witness ==
  /\ lastCall = Call("start", << <<>>, <<>> >>, "rejected")
  /\ error = "need_position_or_jd"
  /\ currentSession # Null
  /\ Len(records) > 0

(* C7: while the answer request of a remote-mode submitAnswer is in flight *)
(* the answer is already stored, and when that request fails the answer is *)
(* kept, the mode is local, the status is still IN_PROGRESS and            *)
(* answeredCount counts the question as answered.                          *)
C7_SubmitSurvivesRemoteFailure ==
  [][/\ (pending'.op = "answer" /\ pending.op = "none")
          => /\ pending'.session.mode = "remote"
             /\ pending'.session.status = "active"
             /\ currentSession' # Null
             /\ pending'.questionId \in DOMAIN currentSession'.answers
             /\ currentSession'.answers[pending'.questionId] = pending'.text
     /\ (pending.op = "answer" /\ lastCall' = Call("submit", <<>>, "remote_failed"))
          => /\ currentSession' # Null
             /\ pending.questionId \in NonEmptyKeys(currentSession'.answers)
             /\ currentSession'.answers[pending.questionId] = pending.text
             /\ currentSession'.mode = "local"
             /\ currentSession'.status = "active"
             /\ currentSession'.answeredCount =
                  Cardinality(NonEmptyKeys(currentSession'.answers))]_vars

(* The answer request of a remote session failed *)
C7_Witness ==
  /\ lastCall = Call("submit", <<>>, "remote_failed")
  /\ currentSession # Null
  /\ currentSession.mode = "local"
  /\ currentSession.remoteNumericId # {}
  /\ currentSession.answeredCount > 0

(* C8: currentIndex < max(1, len(questions)) in every reachable state of *)
(* every session.                                                        *)
C8_IndexWithinQuestions ==
  \A s \in AllSessions : s.currentIndex < Max(1, Len(s.questions))

(* C9: when the create call fails or resolves without a session identity, *)
(* start still yields a session: mode local, IN_PROGRESS, index 0, no     *)
(* answers, no review, and the three fallback questions in their order.   *)
C9_StartFallsBackToLocal ==
  [][(lastCall'.op = "start" /\ lastCall'.outcome \in {"remote_failed", "remote_no_id"})
       => /\ currentSession' # Null
          /\ currentSession'.mode = "local"
          /\ currentSession'.status = "active"
          /\ currentSession'.currentIndex = 0
          /\ currentSession'.answeredCount = 0
          /\ currentSession'.answers = NoAnswers
          /\ currentSession'.feedback = Null
          /\ Len(currentSession'.questions) = 3
          /\ [i \in 1..3 |-> currentSession'.questions[i].id] = <<"q-1", "q-2", "q-3">>
          /\ [i \in 1..3 |-> currentSession'.questions[i].category]
               = <<"self_intro", "project_depth", "onboarding">>]_vars

(* The create call resolved without a session identity *)
C9_Witness ==
  /\ lastCall = Call("start", <<>>, "remote_no_id")
  /\ currentSession # Null
  /\ currentSession.mode = "local"
  /\ Len(currentSession.questions) = 3

(* C10: every start that yields a session yields it with status *)
(* IN_PROGRESS and currentIndex 0.                              *)
C10_StartIsInProgressAtZero ==
  [][(lastCall'.op = "start" /\ lastCall'.outcome \in CompletionOutcomes)
       => /\ currentSession' # Null
          /\ currentSession'.status = "active"
          /\ currentSession'.currentIndex = 0]_vars

(* C11, as stated: in local mode, advance on an IN_PROGRESS session sets  *)
(* currentIndex to min(currentIndex + 1, len(questions) - 1), the index   *)
(* being unchanged on an empty question list, and changes no other field. *)
C11_LocalAdvanceChangesIndexOnly ==
  [][(/\ lastCall'.op = "next" /\ lastCall'.outcome = "local"
      /\ currentSession # Null)
       => currentSession' =
            [currentSession EXCEPT
               !.currentIndex = IF Len(currentSession.questions) = 0 THEN @
                                ELSE Min(@ + 1, Len(currentSession.questions) - 1)]]_vars

(* C11, amended: in local mode, advance on an IN_PROGRESS session adds one *)
(* to currentIndex when the index is before the last question and leaves   *)
(* it unchanged otherwise; it stamps updatedAt, sets questionCount to      *)
(* max(questionCount, len(questions)) and answeredCount to the number of   *)
(* stored answers, and changes no other field.                             *)
C11_LocalAdvance ==
  [][(/\ lastCall'.op = "next" /\ lastCall'.outcome = "local"
      /\ currentSession # Null)
       => /\ currentSession.status = "active"
          /\ currentSession.mode = "local"
          /\ pending' = NoPending
          /\ currentSession' =
               [currentSession EXCEPT
                  !.currentIndex = IF @ >= Len(currentSession.questions) - 1 THEN @
                                   ELSE @ + 1,
                  !.updatedAt = now,
                  !.questionCount = Max(@, Len(currentSession.questions)),
                  !.answeredCount = Cardinality(Keys(currentSession.answers))]]_vars

(* A local advance called at the last question left the index there *)
C11_Witness ==
  /\ currentSession # Null
  /\ currentSession.mode = "local"
  /\ currentSession.status = "active"
  /\ Len(currentSession.questions) = 3
  /\ currentSession.currentIndex = 2
  /\ lastCall = Call("next", <<2>>, "local")

(* The number of non-empty answers and their average length, as the claims *)
(* name them                                                               *)
AnsweredIds(answers) == {id \in DOMAIN answers : Trim(answers[id]) # <<>>}

AverageLength(answers) ==
  IF AnsweredIds(answers) = {} THEN 0
  ELSE RoundDiv(SumTrimmedLength(answers, AnsweredIds(answers)),
                Cardinality(AnsweredIds(answers)))

SameReview(a, b) ==
  /\ a.feedback.score = b.feedback.score
  /\ a.feedback.strengths = b.feedback.strengths
  /\ a.feedback.improvements = b.feedback.improvements

SameAnsweredAverageRole(a, b) ==
  /\ Cardinality(AnsweredIds(a.answers)) = Cardinality(AnsweredIds(b.answers))
  /\ AverageLength(a.answers) = AverageLength(b.answers)
  /\ Trim(a.position) = Trim(b.position)

SpecScore(answers) ==
  Min(95, 45 + 12 * Cardinality(AnsweredIds(answers))
            + (IF AverageLength(answers) >= 80 THEN 12 ELSE 0)
            + (IF AverageLength(answers) >= 140 THEN 6 ELSE 0))

AllAtLeast(answers, n) ==
  \A id \in DOMAIN answers : Len(Trim(answers[id])) >= n

(* C13, as stated: the fallback review score is min(95, 45 + 12 x          *)
(* answeredCount + lengthBonus), and a session whose 3 questions are all   *)
(* answered with answers of at least 80 characters scores 93.              *)
C13_ScoreFormulaAnd93 ==
  reviewA.called
    => /\ reviewA.feedback.score = {SpecScore(reviewA.answers)}
       /\ (Cardinality(DOMAIN reviewA.answers) = 3 /\ AllAtLeast(reviewA.answers, 80))
            => reviewA.feedback.score = {93}

(* C13, amended: the score is min(95, 45 + 12 x answeredCount +            *)
(* lengthBonus); 3 answers of at least 80 characters whose average length  *)
(* is below 140 score 93, and 95 when the average is 140 or more.          *)
C13_ScoreFormula ==
  reviewA.called
    => /\ reviewA.feedback.score = {SpecScore(reviewA.answers)}
       /\ (Cardinality(DOMAIN reviewA.answers) = 3 /\ AllAtLeast(reviewA.answers, 80))
            => reviewA.feedback.score =
                 {IF AverageLength(reviewA.answers) < 140 THEN 93 ELSE 95}

(* Three answers of 80 characters: 93 *)
C13_Witness ==
  /\ reviewA.called
  /\ Cardinality(DOMAIN reviewA.answers) = 3
  /\ \A id \in DOMAIN reviewA.answers : Len(Trim(reviewA.answers[id])) = 80
  /\ reviewA.feedback.score = {93}

(* C14: one apiFetch call sent with an authenticated credential transmits *)
(* the request at most twice; the second transmission follows a           *)
(* successful refresh and carries the access credential that refresh      *)
(* returned; a 401 on the replay ends the call without another refresh    *)
(* or transmission.                                                       *)
C14_AtMostOneReplay ==
  [][/\ (call'.pc # "none" /\ call'.current.mode = "custom")
          => /\ Len(call'.sent) <= 2
             /\ Len(call'.sent) = 2
                  => /\ call'.refreshes > 0
                     /\ call'.sent[2] = call'.refreshed
                     /\ call'.sent[2].accessToken = "t2"
     /\ (call.pc = "retry" /\ call' # call)
          => /\ call'.pc = "done"
             /\ call'.sent = call.sent
             /\ call'.refreshes = call.refreshes]_vars

(* The replay was answered 401 and the call ended *)
C14_Witness ==
  /\ call.pc = "done"
  /\ Len(call.sent) = 2
  /\ call.status = 401
  /\ call.reason = "refresh_failed"

(* A record generated by createGuestAuthState and held by nothing before *)
FreshGuest(state, k) ==
  /\ state # Null
  /\ state.mode = "local"
  /\ state.refreshToken = ""
  /\ state.expiresAt = {}
  /\ state.sessionId = "sess_" \o ToString(k)
  /\ state.accessToken = "local_" \o ToString(k)

RefreshFailures == {"rejected", "no_token", "throw"}

(* C15: when the call's credential has a refresh credential and the first *)
(* two refresh requests (two consecutive payload shapes) fail, no further *)
(* refresh request is sent for that call, the credential becomes a fresh  *)
(* guest record and the reason is refresh_failed.                         *)
C15_TwoFailedShapesExhaustRefresh ==
  [][(/\ call.pc = "refresh" /\ call' # call
      /\ ReplyAt(call'.refreshRun, 1).kind \in RefreshFailures
      /\ ReplyAt(call'.refreshRun, 2).kind \in RefreshFailures)
       => /\ call'.refreshes <= 2
          /\ call'.pc = "done"
          /\ call'.reason = "refresh_failed"
          /\ authFailureReason' = "refresh_failed"
          /\ FreshGuest(authRef', minted')
          /\ minted' = minted + 1]_vars

(* The reason the spec names for a call sent with the credential current *)
TypedReason(current, t) ==
  IF current.refreshToken # "" THEN "refresh_failed"
  ELSE IF current.expiresAt # {} /\ t >= OrElse(current.expiresAt, 0) THEN "expired"
  ELSE "unauthorized"

C18_NoExpiredCredentialWithoutRefresh ==
  [][/\ (call' # call /\ call'.pc # "none")
          => \A i \in 1..Len(call'.sent) :
               ~expiredWithoutRefresh(call'.sent[i], call'.sentAt[i])
     /\ (authRef' # authRef) => ~expiredWithoutRefresh(authRef', now)
     /\ (authStorage' # authStorage /\ authStorage' # Null)
          => ~expiredWithoutRefresh(authStorage', now)
     /\ (authRef # Null /\ expiredWithoutRefresh(authRef, now)
           /\ call' # call /\ call'.pc = "first")
          => /\ FreshGuest(authRef', minted')
             /\ call'.current = authRef'
             /\ authStorage' = authRef']_vars

(* A call was sent with the guest record that replaced, at the send, the *)
(* expired credential of a login                                         *)
C18_Witness ==
  /\ call.pc = "first"
  /\ minted >= 2
  /\ FreshGuest(call.current, minted)
  /\ call.current.updatedAt = call.sentAt[1]
  /\ ~loggedOut

(* C19: from a logout until the next login or applyAccessToken the       *)
(* credential record, in memory and in the storage, is a guest record,   *)
(* whatever calls started before the logout complete after it.           *)
C19_GuestAfterLogout ==
  loggedOut => /\ authRef # Null
               /\ authRef.mode = "local"
               /\ authStorage # Null
               /\ authStorage.mode = "local"

(* The keys of the records of a list *)
RecordKeys(list) == {list[i].key : i \in 1..Len(list)}

(* C20: a record leaves the localStorage list only when the list is at  *)
(* its cap: no step of opening the page, starting, loading or syncing   *)
(* removes a record otherwise.                                          *)
C20_RecordsLeaveOnlyByEviction ==
  [][RecordKeys(sessionStore) \subseteq RecordKeys(sessionStore')
       \/ Len(sessionStore') = StoreCap]_vars

(* The session a lifecycle call leaves when its requests fail in the *)
(* transport: the catch block of the operation                       *)
TransportFailureSession(p, session, t) ==
  CASE p.op = "start" -> fallbackStartRecord(p, t)
    [] p.op = "answer" -> applySessionPatch(downgradeToLocal(session), t)
    [] p.op = "next" -> applySessionPatch(nextFallback(session, t), t)
    [] p.op = "pause" -> applySessionPatch(pauseUpdater(session), t)
    [] p.op = "resume" -> applySessionPatch(resumeUpdater(session), t)
    [] p.op = "end" -> applySessionPatch(endFallback(session, t), t)

C21_ListWithinCap ==
  /\ Len(records) <= StoreCap
  /\ Len(sessionStore) <= StoreCap

(* A session was started on a full list: the list is at the cap with the *)
(* new record first, and the last of the stored records is gone          *)
C21_Witness ==
  /\ Len(sessionStore) = StoreCap
  /\ sessionStore[1].createdAt >= 0
  /\ PastRecords(StoreCap)[StoreCap].key \notin RecordKeys(sessionStore)
  /\ PastRecords(StoreCap)[StoreCap - 1].key \in RecordKeys(sessionStore)

(* C22: the list of records, in the page and in the localStorage, is *)
(* ordered by updatedAt, the latest first, after every operation.    *)
C22_ListLatestFirst ==
  /\ \A i, j \in 1..Len(records) :
       i < j => records[i].updatedAt >= records[j].updatedAt
  /\ \A i, j \in 1..Len(sessionStore) :
       i < j => sessionStore[i].updatedAt >= sessionStore[j].updatedAt

(* C23: a record of the list is never overwritten by one with an earlier *)
(* updatedAt: when a step changes the record kept under a key, the       *)
(* updatedAt of that record does not go back.                            *)
C23_OlderNeverOverwritesNewer ==
  [][\A i \in 1..Len(records), j \in 1..Len(records') :
       (records[i].key = records'[j].key /\ records[i] # records'[j])
         => records'[j].updatedAt >= records[i].updatedAt]_vars

(* The operation called on the current session is not legal in its status *)
IllegalTransition(op, session) ==
  \/ op \in {"submit", "next", "pause"} /\ session.status # "active"
  \/ op = "resume" /\ session.status # "paused"
  \/ op = "end" /\ session.status = "finished"

(* C24: a submitAnswer, advance, pause, resume or finish that is not legal *)
(* in the status of the current session is rejected with an error, puts no *)
(* remote call in flight and leaves the session and the records unchanged. *)
C24_IllegalTransitionRejected ==
  [][(/\ pending = NoPending
      /\ lastCall'.op \in {"submit", "next", "pause", "resume", "end"}
      /\ lastCall'.outcome \notin CompletionOutcomes
      /\ currentSession # Null
      /\ IllegalTransition(lastCall'.op, currentSession))
       => /\ lastCall'.outcome = "rejected"
          /\ error' # ""
          /\ pending' = NoPending
          /\ currentSession' = currentSession
          /\ records' = records]_vars

(* C25: a record or current session whose status is finished keeps that *)
(* status: no step leaves the session of the same key with the status   *)
(* active or paused.                                                    *)
C25_CompletedIsTerminal ==
  [][/\ \A i \in 1..Len(records), j \in 1..Len(records') :
          (records[i].key = records'[j].key /\ records[i].status = "finished")
            => records'[j].status = "finished"
     /\ (currentSession # Null /\ currentSession' # Null
           /\ currentSession.key = currentSession'.key
           /\ currentSession.status = "finished")
          => currentSession'.status = "finished"]_vars

(* C26: once a session is finished with a review, no step changes the *)
(* review of that session, in the current session or in its record.   *)
C26_ReviewProducedOnce ==
  [][/\ \A i \in 1..Len(records), j \in 1..Len(records') :
          (/\ records[i].key = records'[j].key
           /\ records[i].status = "finished"
           /\ records[i].feedback # Null)
            => records'[j].feedback = records[i].feedback
     /\ (currentSession # Null /\ currentSession' # Null
           /\ currentSession.key = currentSession'.key
           /\ currentSession.status = "finished"
           /\ currentSession.feedback # Null)
          => currentSession'.feedback = currentSession.feedback]_vars

(* C27: a pause of an active session ends with the status paused and a *)
(* resume of a paused session with the status active, whether the      *)
(* remote call resolved or failed, and the mode, the answers,          *)
(* answeredCount, currentIndex and the review are those of before.     *)
C27_PauseResumeToggleStatusOnly ==
  [][(/\ lastCall'.op \in {"pause", "resume"}
      /\ lastCall'.outcome \in {"local", "remote_ok", "remote_failed"}
      /\ currentSession # Null)
       => /\ currentSession' # Null
          /\ currentSession'.status = IF lastCall'.op = "pause" THEN "paused" ELSE "active"
          /\ currentSession'.mode = currentSession.mode
          /\ currentSession'.answers = currentSession.answers
          /\ currentSession'.answeredCount = currentSession.answeredCount
          /\ currentSession'.currentIndex = currentSession.currentIndex
          /\ currentSession'.feedback = currentSession.feedback]_vars

(* Every answer of the session before is an answer of the session after, *)
(* with the same text                                                    *)
KeepsAnswers(before, after) ==
  /\ DOMAIN before.answers \subseteq DOMAIN after.answers
  /\ \A q \in DOMAIN before.answers : after.answers[q] = before.answers[q]

(* C28: no step that reconciles with the remote authority (the completion *)
(* of a submitAnswer, advance or finish, the remote list merge, the load  *)
(* of a record) removes or changes an answer text, in the current session *)
(* or in the record of the same key.                                      *)
C28_ReconciliationKeepsAnswers ==
  [][(lastCall'.op \in {"submit", "next", "end", "sync", "load"}
        /\ lastCall'.outcome \in CompletionOutcomes)
       => /\ \A i \in 1..Len(records), j \in 1..Len(records') :
               records[i].key = records'[j].key => KeepsAnswers(records[i], records'[j])
          /\ (currentSession # Null /\ currentSession' # Null
                /\ currentSession.key = currentSession'.key)
               => KeepsAnswers(currentSession, currentSession')]_vars

(* C29: the score of every review stored on a session, when present, is *)
(* within 0..100.                                                       *)
C29_ScoreWithinRange ==
  \A s \in AllSessions :
    s.feedback # Null => \A score \in s.feedback.score : score \in 0..100

(* part is a run of consecutive characters of text *)
Contains(text, part) ==
  \E i \in 0..(Len(text) - Len(part)) : SubSeq(text, i + 1, i + Len(part)) = part

(* C30 as stated: with a non-empty message and a requestId the text shown *)
(* contains both, and the fallback text is shown only for a payload that  *)
(* is not an object or has neither message nor detail.                    *)
C30_ShowsMessageAndRequestId ==
  errorShown.called =>
    LET payload == errorShown.payload
    IN /\ (payload # Null /\ payload.message # <<>> /\ payload.requestId # <<>>)
            => /\ Contains(errorShown.text, payload.message)
               /\ Contains(errorShown.text, payload.requestId)
       /\ errorShown.text = FallbackText
            => \/ payload = Null
               \/ payload.message = <<>> /\ payload.detail = <<>>

(* C30: with a non-empty message and a requestId whose text             *)
(* "message (requestId: id)" shows no technical detail, the text shown  *)
(* is that text trimmed: it contains the trimmed message and the        *)
(* requestId. The fallback text is shown only for a payload that is not *)
(* an object, that has neither message nor detail, or whose text taken  *)
(* from the message or else the detail is blank or shows technical      *)
(* detail.                                                              *)
C30_ShowsUntechnicalMessageAndRequestId ==
  errorShown.called =>
    LET payload == errorShown.payload
        taken == IF payload.message # <<>>
                 THEN (IF payload.requestId # <<>>
                       THEN payload.message \o <<Blank, 6, Blank>> \o payload.requestId \o <<8>>
                       ELSE payload.message)
                 ELSE payload.detail
    IN /\ (/\ payload # Null /\ payload.message # <<>> /\ payload.requestId # <<>>
           /\ ~containsTechnicalDetail(taken))
            => /\ errorShown.text = Trim(taken)
               /\ Contains(errorShown.text, Trim(payload.message))
               /\ Contains(errorShown.text, payload.requestId)
       /\ errorShown.text = FallbackText
            => \/ payload = Null
               \/ payload.message = <<>> /\ payload.detail = <<>>
               \/ Trim(taken) = <<>>
               \/ containsTechnicalDetail(taken)

(* A message with a blank in front and a requestId: the text shown is the *)
(* template without that blank                                            *)
C30_Witness ==
  /\ errorShown.called
  /\ errorShown.payload # Null
  /\ errorShown.payload.message = <<Blank, 1>>
  /\ errorShown.payload.requestId = <<1, Blank>>
  /\ errorShown.text = <<1, Blank, 6, Blank, 1, Blank, 8>>

(* The status of the session that a status reported by the remote authority *)
(* names: COMPLETED is the status finished                                  *)
StatusNamed(reported) == IF reported = "completed" THEN "finished" ELSE reported

(* The session is the one a resolved advance leaves on the reply data *)
AdvancedOn(data) ==
  /\ pending.op = "next"
  /\ lastCall'.op = "next"
  /\ lastCall'.outcome = "remote_ok"
  /\ currentSession # Null
  /\ currentSession' = applySessionPatch(reconcileNext(currentSession, data), now)

DistinctIds(questions) ==
  \A i, j \in 1..Len(questions) : questions[i].id = questions[j].id => i = j

(* C32: the question list of a session never holds two questions with the *)
(* same id; the completion of a remote submitAnswer or advance keeps the   *)
(* questions of the session in their order and appends at most the         *)
(* question of the reply, and only when no question has its id.            *)
C32_QuestionIdsDistinct ==
  [][/\ \A i \in 1..Len(records') : DistinctIds(records'[i].questions)
     /\ currentSession' # Null => DistinctIds(currentSession'.questions)
     /\ (/\ lastCall'.op \in {"submit", "next"}
         /\ lastCall'.outcome \in CompletionOutcomes
         /\ currentSession # Null)
          => LET before == currentSession.questions
                 after == currentSession'.questions
             IN /\ Len(after) \in {Len(before), Len(before) + 1}
                /\ SubSeq(after, 1, Len(before)) = before
                /\ Len(after) = Len(before) + 1
                     => ~HasQuestion(before, after[Len(after)].id)]_vars

(* The session the operation of the call p leaves when it is called on   *)
(* the session in local mode: the local branch of the handler            *)
LocalOutcome(p, session, t) ==
  CASE p.op = "start" -> fallbackStartRecord(p, t)
    [] p.op = "answer" ->
         applySessionPatch(withLocalAnswer(session, p.questionId, p.text), t)
    [] p.op = "next" -> applySessionPatch(advanceLocal(session), t)
    [] p.op = "end" -> applySessionPatch(finishLocal(session), t)

(* status, currentIndex, answeredCount, answers and review are the same *)
SameObservableFields(a, b) ==
  /\ a.status = b.status
  /\ a.currentIndex = b.currentIndex
  /\ a.answeredCount = b.answeredCount
  /\ a.answers = b.answers
  /\ a.feedback = b.feedback

(* C33: when the remote call of a start, submitAnswer, advance or finish  *)
(* fails, the session is left in local mode with the status,              *)
(* currentIndex, answeredCount, answers and review that the same          *)
(* operation leaves on the session it was called on, taken in local mode. *)
C33_FallbackEqualsLocalOperation ==
  [][(/\ pending.op \in {"start", "answer", "next", "end"}
      /\ pending' = NoPending
      /\ lastCall'.outcome \in {"remote_failed", "remote_no_id"})
       => /\ currentSession' # Null
          /\ currentSession'.mode = "local"
          /\ SameObservableFields(
               currentSession',
               LocalOutcome(pending,
                            IF pending.op = "start" THEN Null
                            ELSE downgradeToLocal(pending.session),
                            now))]_vars

(* The advance of a remote session at its first question failed: the *)
(* session is in local mode at its second question                   *)
C33_Witness ==
  /\ lastCall.op = "next"
  /\ lastCall.outcome = "remote_failed"
  /\ currentSession # Null
  /\ currentSession.mode = "local"
  /\ currentSession.status = "active"
  /\ currentSession.currentIndex = 1
  /\ currentSession.remoteNumericId # {}

(* The derived sub-states of the question at position p (from 0) of a *)
(* session                                                            *)
SubStates(s, p) ==
  LET id == s.questions[p + 1].id
      answered == id \in DOMAIN s.answers /\ Trim(s.answers[id]) # <<>>
      noAnswer == id \notin DOMAIN s.answers
  IN (IF p > s.currentIndex /\ noAnswer THEN {"not_yet_reached"} ELSE {})
       \cup (IF p = s.currentIndex THEN {"current"} ELSE {})
       \cup (IF answered THEN {"answered"} ELSE {})
       \cup (IF p < s.currentIndex /\ noAnswer THEN {"skipped"} ELSE {})

(* C34, as stated: every question of every session is in exactly one of *)
(* the sub-states not-yet-reached, current, answered, skipped.          *)
C34_ExactlyOneSubState ==
  \A s \in AllSessions : \A p \in 0..(Len(s.questions) - 1) :
    Cardinality(SubStates(s, p)) = 1

(* C34, amended: every question of every session is in at least one of  *)
(* the sub-states not-yet-reached, current, answered, skipped, and in    *)
(* two of them only when it is both current and answered.               *)
C34_OneSubStateOrCurrentAnswered ==
  \A s \in AllSessions : \A p \in 0..(Len(s.questions) - 1) :
    \/ Cardinality(SubStates(s, p)) = 1
    \/ SubStates(s, p) = {"current", "answered"}

(* An answer was submitted on the current question of a local session: *)
(* the question is current and answered                                *)
C34_Witness ==
  /\ lastCall.op = "submit"
  /\ lastCall.outcome = "local"
  /\ currentSession # Null
  /\ currentSession.mode = "local"
  /\ currentSession.currentIndex = 1
  /\ SubStates(currentSession, 1) = {"current", "answered"}
  /\ SubStates(currentSession, 0) = {"skipped"}
  /\ SubStates(currentSession, 2) = {"not_yet_reached"}

(* The session of the key is the current one, active in local mode at *)
(* the position k                                                     *)
LocalAt(key, k) ==
  /\ currentSession # Null
  /\ currentSession.key = key
  /\ currentSession.mode = "local"
  /\ currentSession.status = "active"
  /\ currentSession.currentIndex = k

(* The session of the key is the current one in local mode at a position *)
(* before k and holds an answer to the question at that position         *)
RevisitedBefore(key, k) ==
  /\ currentSession # Null
  /\ currentSession.key = key
  /\ currentSession.mode = "local"
  /\ currentSession.currentIndex < k
  /\ currentQuestion(currentSession) # Null
  /\ currentQuestion(currentSession).id \in DOMAIN currentSession.answers

(* The session of the key is still open when the clock runs out *)
LeftOpen(key) ==
  /\ now = MaxClock
  /\ \A i \in 1..Len(records) :
       records[i].key = key => records[i].status # "finished"

RunsCompleting ==
  LET n == CASE pending.op = "start" -> 4
             [] pending.op = "end" -> 3
             [] OTHER -> 2
  IN {run \in ReplyRuns(n) :
        /\ lastCall'.arg = RepliesSeen(run)
        /\ (lastCall'.outcome = "remote_failed") = ~callInterviewApi(run, Null).ok}

(* C36: once a request of a start, submitAnswer, advance or finish has *)
(* failed with a network error or a response that is neither 2xx nor   *)
(* 404/405, the operation sends no further request and completes with  *)
(* the local fallback.                                                 *)
C36_NoAttemptAfterFailure ==
  [][(pending.op \in {"start", "answer", "next", "end"} /\ pending' = NoPending)
       => \A run \in RunsCompleting : \A i \in 1..Len(run) :
            run[i] \in {"error", "throw", "unauthorized"}
              => i = Len(run) /\ lastCall'.outcome = "remote_failed"]_vars

(* C37: the list holds at most one record per key and at most one per   *)
(* sessionId, and a step that merges into a record leaves its key as it *)
(* was.                                                                 *)
C37_StoreKeyedByIdentity ==
  [][/\ \A i, j \in 1..Len(records') :
          (records'[i].key = records'[j].key
             \/ records'[i].sessionId = records'[j].sessionId) => i = j
     /\ Len(records') >= Len(records)
          => \A i \in 1..Len(records) : \E j \in 1..Len(records') :
               records'[j].key = records[i].key]_vars

(* C38: every session with the status finished, the current one and   *)
(* every record, has a review, also when the status was taken from a  *)
(* reply of the remote authority.                                     *)
C38_CompletedHasReview ==
  \A s \in AllSessions : s.status = "finished" => s.feedback # Null


(* C39: when two apiFetch calls overlapped and both have finished, and one *)
(* of them completed a successful refresh and replay, the credential       *)
(* record is a refreshed authenticated credential, in memory and in        *)
(* localStorage; it is not a guest credential written by the other call    *)
RefreshedAndReplayed(c) ==
  /\ c.pc = "done"
  /\ c.refreshed # Null
  /\ c.status = 200

C39_RefreshedCredentialSurvivesOverlap ==
  (/\ call.pc = "done"
   /\ otherCall.pc = "done"
   /\ RefreshedAndReplayed(call) \/ RefreshedAndReplayed(otherCall))
  => /\ authRef # Null
     /\ authRef.mode = "custom"
     /\ authStorage # Null
     /\ authStorage.mode = "custom"
     /\ \E c \in {call, otherCall} :
          RefreshedAndReplayed(c) /\ authRef.accessToken = c.refreshed.accessToken

(* The two credential records agree on everything but the session id *)
(* and the time of the update                                        *)
SameButSessionId(a, b) ==
  /\ a # Null
  /\ b # Null
  /\ a.mode = b.mode
  /\ a.accessToken = b.accessToken
  /\ a.refreshToken = b.refreshToken
  /\ a.userName = b.userName
  /\ a.expiresAt = b.expiresAt

(* The call sent with a guest credential is answered 401 in this step *)
GuestAnswered401 ==
  /\ call.pc = "first"
  /\ call.current.mode # "custom"
  /\ call' # call
  /\ call'.status = 401

(* C40: a request made with a guest credential that is answered 401 is *)
(* returned as is: the call ends with the 401, no refresh request was   *)
(* sent, the request was not replayed, no failure reason is set, no new *)
(* guest credential is minted, and the credential record in memory and  *)
(* in localStorage is unchanged apart from the session id the server    *)
(* assigned.                                                            *)
C40_GuestUnauthorizedReturnedAsIs ==
  [][GuestAnswered401 =>
       /\ call'.pc = "done"
       /\ call'.reason = ""
       /\ call'.refreshes = 0
       /\ call'.refreshed = Null
       /\ call'.sent = call.sent
       /\ Len(call'.sent) = 1
       /\ authFailureReason' = authFailureReason
       /\ minted' = minted
       /\ SameButSessionId(authRef', authRef)
       /\ authRef'.sessionId \in {authRef.sessionId} \cup (ResponseSessionIds \ {""})
       /\ (authStorage' = authStorage \/ authStorage' = authRef')]_vars

====
